---- MODULE Spec2Model ----
(***************************************************************************)
(* Telegram <-> Signal bridge: dispatch router, provisioning worker, the   *)
(* Signal event listener and the two delivery workers.                     *)
(*                                                                         *)
(* Spec          router, provisioning worker and the two queues            *)
(* SpecPipeline  the router, the provisioning worker and process_queue     *)
(* SpecHandlers  the Telegram event handlers in front of the router        *)
(* SpecMarkdown  one call of convert_telegram_markdown                     *)
(* SpecCreate    create_signal_group, call by call                         *)
(* SpecListener  SignalSSEListener (ListenerFair: with the event loop's    *)
(*               fairness)                                                 *)
(* SpecDelivery  process_queue and process_telegram_send_queue, item by    *)
(*               item                                                      *)
(*                                                                         *)
(* The program runs on one asyncio event loop.  A coroutine runs without   *)
(* interruption from one await to the next, so every action below is the   *)
(* code between two suspension points of one coroutine, and every state of *)
(* the model is a state observable at a suspension point.                  *)
(***************************************************************************)
EXTENDS Integers, Sequences, FiniteSets, TLC

\* ------------------------------------------------------------------ bounds
NumChats == 2          \* Telegram conversation ids 1..NumChats
MaxItems == 3          \* route() calls made in one behaviour
MaxSignalQueue == 1    \* Signal messages waiting in telegram_send_queue
MaxAttempts == 3       \* connections the listener opens in one behaviour
MaxAttachments == 2    \* attachments of one Signal message, messages of one album
MaxDeliveries == 2     \* items each delivery worker dequeues in one behaviour
MaxEvents == 2         \* Telegram and Signal events the handlers receive in one behaviour
MaxTokens == 5         \* pieces (markers, characters) a text handed to the converter is made of
MaxRequests == 2       \* calls of create_signal_group made in one behaviour
MaxPiped == 2          \* route() calls in one behaviour of the router with its delivery worker

ChatIds == 1..NumChats
\* a conversation is bridged to at most one group at a time: NumChats ids suffice
GroupIds == 1..NumChats

\* dict.get() of a missing key: None
NoGroup == 0
\* config.get_telegram_chat_id() of a missing group: None
NoLookup == <<>>
\* the worker holds no request (it waits in group_creation_queue.get())
NoReq == <<>>

\* ------------------------------------------------------- state of the program
VARIABLES
    chats,                \* config_data['chats']: insertion-ordered dict, <<chat_id, group_id>> pairs
    channels,             \* config_data['channels']: the same for channels
    signal_to_telegram,   \* config._signal_to_telegram: group_id -> <<chat_id, is_channel>>
    to_send_queue,        \* queue_manager.to_send_queue (Telegram -> Signal delivery)
    group_creation_queue, \* queue_manager.group_creation_queue: <<chat_id, is_channel>> requests
    telegram_send_queue,  \* queue_manager.telegram_send_queue (Signal -> Telegram delivery)
    pending_messages,     \* queue_manager.pending_messages: chat_id -> list of items
    groups_being_created, \* queue_manager.groups_being_created
    prov_pc,              \* where process_group_creation_queue is suspended
    prov_req,             \* the request it dequeued (chat_id, is_channel), or NoReq
\* ----------------------------------------------------- history of the behaviour
    nextItem,             \* number of the next item handed to queue_or_create_group
    last,                 \* the latest route() call or provisioning resolution, with its arguments
    round,                \* chat_id -> calls <<item, is_channel>> of the provisioning round in progress
    discarded,            \* items whose buffer entry a failed provisioning deleted
    placed,               \* items that have been put on to_send_queue, delivered since or not
\* ------------------------------------------------ SignalSSEListener (one instance)
    l_pc,                 \* where start() is: "init" (task created, not yet run), or suspended
                          \* in "connecting" (session.get), "streaming" (next line),
                          \* "backoff" (asyncio.sleep), "closing" (session.close()), or over:
                          \* "stopped" (returned), "cancelled" (left by CancelledError)
    running,              \* self._running
    session,              \* self._session: "none", "open" or "closed"
\* ------------------------------------------------------- history of the listener
    l_attempts,           \* _listen() calls: connections attempted
    l_backoffs,           \* backoff sleeps begun
    l_fails,              \* attempts ended by a non-200 status or an error while connecting
    l_oks,                \* attempts answered 200
    l_stop,               \* stop() has been called
    l_cancelled,          \* the start() task has been cancelled
    l_line,               \* the line the latest step of the async for took, or NoLine
    l_tick,               \* flips whenever the async for takes a line
\* ------------------------------- process_telegram_send_queue (Signal -> Telegram)
    send_video_as_note,   \* the worker's parameter (SEND_VIDEO_AS_NOTE)
    b_pc,                 \* where the worker is suspended: "get", "send" (client.send_file or
                          \* send_message), "receipt" (send_read_receipt), "sleep"; "dead" once
                          \* an exception has left the loop
    b_item,               \* item: [attachments, message, receipt_info], or NoItem
    attachment_paths,     \* the five lists the worker builds for the item
    voice_note_paths,
    video_note_paths,
    signal_attachment_paths,
    converted_voice_paths,
    b_files,              \* storage: the files of the item in progress that exist
    b_sends,              \* the Telegram sends made for the item, in order
    b_receipts,           \* the sendReceipt calls made for the item and how each ended
    b_raised,             \* a send raised while the item was processed
    b_conversions,        \* the files handed to convert_m4a_to_ogg_opus for the item
    b_dequeued,           \* telegram_send_queue.get() calls that returned
    b_acked,              \* telegram_send_queue.task_done() calls
\* ------------------------------------------- process_queue (Telegram -> Signal)
    a_pc,                 \* where the worker is suspended: "get", "mark_read", "download",
                          \* "sender" (get_sender_name), "post" (session.post), "sleep"
    a_item,               \* (item_type, item): [type, chat, media, is_group], or NoItem
    a_i,                  \* process_album: the message of the album the loop is at
    attachments,          \* process_message / process_album: attachments
    a_path,               \* process_message: a_path
    converted_path,       \* process_message: converted_path
    a_files,              \* storage: the files of the item in progress that exist
    a_posts,              \* the attachment lists of the "send" requests made for the item
    a_raised,             \* an exception ended the processing of the item
    a_dequeued,           \* to_send_queue.get() calls that returned
    a_acked,              \* to_send_queue.task_done() calls
\* ------------------------------------------ register_handlers (Telegram handlers)
    enable_channels,      \* register_handlers' parameters
    enable_read_messages,
    enable_read_channels,
    h_pending,            \* the events whose handler is suspended in mark_read()
\* ---------------------------------------------- convert_telegram_markdown (a call)
    md_text,              \* the argument: a sequence of characters
    md_result,            \* what the call returned: [text, styles], or NoResult before it
\* ------------------------------------------------ create_signal_group (the calls)
    c_pc,                 \* where the call is suspended: "get_entity", "get_profile_photos",
                          \* "download_media", "post" (session.post), "text" (resp.text()),
                          \* "json" (resp.json()); "idle" before the first call, "done" once
                          \* the call has returned or raised
    c_req,                \* (chat_id, is_channel) of the call
    profile_pic_path,     \* profile_pic_path
    c_files,              \* storage: the downloaded profile photos that exist
    c_result,             \* what the call returned (a group id, or NoGroup for None), or Raised
    c_how,                \* how the call ended
    c_calls               \* calls made

progVars == <<chats, channels, signal_to_telegram, to_send_queue, group_creation_queue,
              telegram_send_queue, pending_messages, groups_being_created, prov_pc, prov_req>>
histVars == <<nextItem, last, round, discarded, placed>>
listenerVars == <<l_pc, running, session, l_attempts, l_backoffs, l_fails, l_oks,
                  l_stop, l_cancelled, l_line, l_tick>>
b2aVars == <<send_video_as_note, b_pc, b_item, attachment_paths, voice_note_paths,
             video_note_paths, signal_attachment_paths, converted_voice_paths, b_files,
             b_sends, b_receipts, b_raised, b_conversions, b_dequeued, b_acked>>
a2bVars == <<a_pc, a_item, a_i, attachments, a_path, converted_path, a_files, a_posts,
             a_raised, a_dequeued, a_acked>>
deliveryVars == <<b2aVars, a2bVars>>
handlerVars == <<enable_channels, enable_read_messages, enable_read_channels, h_pending>>
mdVars == <<md_text, md_result>>
createVars == <<c_pc, c_req, profile_pic_path, c_files, c_result, c_how, c_calls>>
pipeVars == <<listenerVars, deliveryVars, handlerVars, mdVars, createVars>>
vars == <<progVars, histVars, pipeVars>>

\* ------------------------------------------------ insertion-ordered dictionaries
Keys(d) == {d[i][1] : i \in DOMAIN d}

Get(d, k) == IF k \in Keys(d) THEN d[CHOOSE i \in DOMAIN d : d[i][1] = k][2] ELSE NoGroup

\* d[k] = v, replacing the whole table (the table is re-created on every update)
PutResettingTable(d, k, v) == <<<<k, v>>>>

\* d[k] = v: an existing key keeps its place, a new key goes last
Put(d, k, v) ==
    IF k \in Keys(d)
    THEN [i \in DOMAIN d |-> IF d[i][1] = k THEN <<k, v>> ELSE d[i]]
    ELSE Append(d, <<k, v>>)

\* ------------------------------------------------------------------ config.py
RECURSIVE ReverseInto(_, _, _)
ReverseInto(acc, d, is_channel) ==
    IF d = <<>> THEN acc
    ELSE ReverseInto([acc EXCEPT ![Head(d)[2]] = <<Head(d)[1], is_channel>>], Tail(d), is_channel)

build_reverse_mapping(ch, cn) ==
    ReverseInto(ReverseInto([g \in GroupIds |-> NoLookup], ch, FALSE), cn, TRUE)

get_telegram_chat_id(signal_group_id) == signal_to_telegram[signal_group_id]

\* ---------------------------------------------------------- queue_manager.py
\* only the 'chats' table is looked at
get_signal_group_id_ChatsOnly(chat_id) == Get(chats, chat_id)

\* return chats.get(chat_id) or channels.get(chat_id)
get_signal_group_id(chat_id) ==
    IF Get(chats, chat_id) # NoGroup THEN Get(chats, chat_id) ELSE Get(channels, chat_id)

Mapped(chat_id) == get_signal_group_id(chat_id) # NoGroup

\* the in-flight test is skipped: every miss starts a provisioning
InFlightNeverSeen(chat_id) == FALSE

InFlight(chat_id) == chat_id \in groups_being_created

\* if chat_id not in pending_messages: pending_messages[chat_id] = []
\* pending_messages[chat_id].append(item)
AppendPending(pm, chat_id, item) ==
    [k \in DOMAIN pm \cup {chat_id} |->
        IF k = chat_id
        THEN (IF chat_id \in DOMAIN pm THEN Append(pm[chat_id], item) ELSE <<item>>)
        ELSE pm[k]]

\* the buffer entry is kept after its items were re-queued
DeletePendingSkipped(pm, chat_id) == pm

\* del pending_messages[chat_id]
DeletePending(pm, chat_id) == [k \in DOMAIN pm \ {chat_id} |-> pm[k]]

\* a mapped conversation's item is buffered as well as queued
queue_or_create_group_AlsoBuffers(chat_id, is_channel, item) ==
    /\ IF Mapped(chat_id)
       THEN /\ to_send_queue' = Append(to_send_queue, item)
            /\ pending_messages' = AppendPending(pending_messages, chat_id, item)
            /\ UNCHANGED <<groups_being_created, group_creation_queue>>
       ELSE IF InFlight(chat_id)
       THEN /\ pending_messages' = AppendPending(pending_messages, chat_id, item)
            /\ UNCHANGED <<to_send_queue, groups_being_created, group_creation_queue>>
       ELSE /\ groups_being_created' = groups_being_created \cup {chat_id}
            /\ pending_messages' = AppendPending(pending_messages, chat_id, item)
            /\ group_creation_queue' = Append(group_creation_queue, <<chat_id, is_channel>>)
            /\ UNCHANGED to_send_queue
    /\ UNCHANGED <<chats, channels, signal_to_telegram, telegram_send_queue, prov_pc, prov_req>>

\* an item that arrives while the group is being created goes straight to the
\* delivery queue
queue_or_create_group_QueuesWhileInFlight(chat_id, is_channel, item) ==
    /\ IF Mapped(chat_id) \/ InFlight(chat_id)
       THEN /\ to_send_queue' = Append(to_send_queue, item)
            /\ UNCHANGED <<pending_messages, groups_being_created, group_creation_queue>>
       ELSE /\ groups_being_created' = groups_being_created \cup {chat_id}
            /\ pending_messages' = AppendPending(pending_messages, chat_id, item)
            /\ group_creation_queue' = Append(group_creation_queue, <<chat_id, is_channel>>)
            /\ UNCHANGED to_send_queue
    /\ UNCHANGED <<chats, channels, signal_to_telegram, telegram_send_queue, prov_pc, prov_req>>

\* queue_or_create_group has no await: it runs to its end in one step
queue_or_create_group(chat_id, is_channel, item) ==
    /\ IF Mapped(chat_id)
       THEN /\ to_send_queue' = Append(to_send_queue, item)
            /\ UNCHANGED <<pending_messages, groups_being_created, group_creation_queue>>
       ELSE IF InFlight(chat_id)
       THEN /\ pending_messages' = AppendPending(pending_messages, chat_id, item)
            /\ UNCHANGED <<to_send_queue, groups_being_created, group_creation_queue>>
       ELSE /\ groups_being_created' = groups_being_created \cup {chat_id}
            /\ pending_messages' = AppendPending(pending_messages, chat_id, item)
            /\ group_creation_queue' = Append(group_creation_queue, <<chat_id, is_channel>>)
            /\ UNCHANGED to_send_queue
    /\ UNCHANGED <<chats, channels, signal_to_telegram, telegram_send_queue, prov_pc, prov_req>>

\* --------------------------------------------- utils/signal_group.py (results)
UsedGroups == {chats[i][2] : i \in DOMAIN chats} \cup {channels[i][2] : i \in DOMAIN channels}

\* what `await create_signal_group(...)` can hand back to the worker:
\*   a group id  - the updateGroup call answered 200 with result.groupId; Signal
\*                 makes a new group, so the id is one no table holds yet.  Group
\*                 ids are opaque (stored and compared, nothing else), so the new
\*                 id is named by the least number not in use;
\*   NoGroup     - None: get_entity raised, the status was not 200, the call raised;
\* or it raises: os.remove(profile_pic_path) in its finally block failed.
CreatedGroupIds ==
    IF GroupIds \ UsedGroups = {} THEN {}
    ELSE {CHOOSE g \in GroupIds \ UsedGroups : \A h \in GroupIds \ UsedGroups : g <= h}

\* ------------------------------------- telegram_to_signal.py: provisioning worker
\* for item in pending_messages[chat_id]: to_send_queue.put_nowait(item), last item first
RequeueReversed(q, items) == q \o [i \in DOMAIN items |-> items[Len(items) + 1 - i]]

\* for item in pending_messages[chat_id]: to_send_queue.put_nowait(item)
Requeue(q, items) == q \o items

\* the finally block forgets the in-flight set
DiscardInFlightSkipped(s, chat_id) == s

\* finally: groups_being_created.discard(chat_id)
DiscardInFlight(s, chat_id) == s \ {chat_id}

\* chat_id, is_channel = await group_creation_queue.get()
prov_get ==
    /\ prov_pc = "get"
    /\ group_creation_queue # <<>>
    /\ prov_req' = Head(group_creation_queue)
    /\ group_creation_queue' = Tail(group_creation_queue)
    /\ prov_pc' = "create"
    /\ UNCHANGED <<chats, channels, signal_to_telegram, to_send_queue, telegram_send_queue,
                   pending_messages, groups_being_created>>

\* the mapping is stored but the buffered items are dropped instead of re-queued
process_group_creation_queue_success_NoRequeue(chat_id, is_channel, group_id) ==
    /\ chats' = IF is_channel THEN chats ELSE Put(chats, chat_id, group_id)
    /\ channels' = IF is_channel THEN Put(channels, chat_id, group_id) ELSE channels
    /\ signal_to_telegram' = build_reverse_mapping(chats', channels')
    /\ pending_messages' = DeletePending(pending_messages, chat_id)
    /\ groups_being_created' = DiscardInFlight(groups_being_created, chat_id)
    /\ UNCHANGED <<to_send_queue, group_creation_queue, telegram_send_queue>>

\* the buffered items are re-queued but the mapping is not stored
process_group_creation_queue_success_NoMapping(chat_id, is_channel, group_id) ==
    /\ IF chat_id \in DOMAIN pending_messages
       THEN /\ to_send_queue' = Requeue(to_send_queue, pending_messages[chat_id])
            /\ pending_messages' = DeletePending(pending_messages, chat_id)
       ELSE UNCHANGED <<to_send_queue, pending_messages>>
    /\ groups_being_created' = DiscardInFlight(groups_being_created, chat_id)
    /\ UNCHANGED <<chats, channels, signal_to_telegram, group_creation_queue,
                   telegram_send_queue>>

\* group_id returned and save_config() returned: lines 178-193, then the finally block
process_group_creation_queue_success(chat_id, is_channel, group_id) ==
    /\ chats' = IF is_channel THEN chats ELSE Put(chats, chat_id, group_id)
    /\ channels' = IF is_channel THEN Put(channels, chat_id, group_id) ELSE channels
    /\ signal_to_telegram' = build_reverse_mapping(chats', channels')
    /\ IF chat_id \in DOMAIN pending_messages
       THEN /\ to_send_queue' = Requeue(to_send_queue, pending_messages[chat_id])
            /\ pending_messages' = DeletePending(pending_messages, chat_id)
       ELSE UNCHANGED <<to_send_queue, pending_messages>>
    /\ groups_being_created' = DiscardInFlight(groups_being_created, chat_id)
    /\ UNCHANGED <<group_creation_queue, telegram_send_queue>>

\* group_id returned, config_data updated, save_config() raises (open or json.dump):
\* lines 180-184, then except and finally; _build_reverse_mapping is not reached
process_group_creation_queue_save_raises(chat_id, is_channel, group_id) ==
    /\ chats' = IF is_channel THEN chats ELSE Put(chats, chat_id, group_id)
    /\ channels' = IF is_channel THEN Put(channels, chat_id, group_id) ELSE channels
    /\ groups_being_created' = DiscardInFlight(groups_being_created, chat_id)
    /\ UNCHANGED <<signal_to_telegram, to_send_queue, pending_messages,
                   group_creation_queue, telegram_send_queue>>

\* the buffered items are re-queued although no group exists
process_group_creation_queue_failure_Requeues(chat_id) ==
    /\ IF chat_id \in DOMAIN pending_messages
       THEN /\ to_send_queue' = Requeue(to_send_queue, pending_messages[chat_id])
            /\ pending_messages' = DeletePending(pending_messages, chat_id)
       ELSE UNCHANGED <<to_send_queue, pending_messages>>
    /\ groups_being_created' = DiscardInFlight(groups_being_created, chat_id)
    /\ UNCHANGED <<chats, channels, signal_to_telegram, group_creation_queue,
                   telegram_send_queue>>

\* create_signal_group returned None: lines 194-197, then the finally block
process_group_creation_queue_failure(chat_id) ==
    /\ pending_messages' = DeletePending(pending_messages, chat_id)
    /\ groups_being_created' = DiscardInFlight(groups_being_created, chat_id)
    /\ UNCHANGED <<chats, channels, signal_to_telegram, to_send_queue, group_creation_queue,
                   telegram_send_queue>>

\* create_signal_group raised: except (line 199) and finally only
process_group_creation_queue_create_raises(chat_id) ==
    /\ groups_being_created' = DiscardInFlight(groups_being_created, chat_id)
    /\ UNCHANGED <<chats, channels, signal_to_telegram, to_send_queue, pending_messages,
                   group_creation_queue, telegram_send_queue>>

\* await asyncio.sleep(1), back to the top of the loop
prov_sleep ==
    /\ prov_pc = "sleep"
    /\ prov_pc' = "get"
    /\ UNCHANGED <<chats, channels, signal_to_telegram, to_send_queue, group_creation_queue,
                   telegram_send_queue, pending_messages, groups_being_created, prov_req>>

\* ------------------------------------------ telegram_to_signal.py: delivery worker
\* process_queue takes the next item; processing it touches no shared structure
process_queue ==
    /\ to_send_queue # <<>>
    /\ to_send_queue' = Tail(to_send_queue)
    /\ UNCHANGED <<chats, channels, signal_to_telegram, group_creation_queue,
                   telegram_send_queue, pending_messages, groups_being_created,
                   prov_pc, prov_req>>

\* ------------------------------------------------------ core/signal_to_telegram.py
\* a message without text and without attachments is enqueued as well
handle_signal_message_EmptyToo(group_id, has_content) ==
    /\ IF get_telegram_chat_id(group_id) = NoLookup
       THEN UNCHANGED telegram_send_queue
       ELSE telegram_send_queue' =
                Append(telegram_send_queue,
                       [chat_id |-> get_telegram_chat_id(group_id)[1],
                        is_channel |-> get_telegram_chat_id(group_id)[2]])
    /\ UNCHANGED <<chats, channels, signal_to_telegram, to_send_queue, group_creation_queue,
                   pending_messages, groups_being_created, prov_pc, prov_req>>

\* lines 42-72: no content or no mapping, nothing happens; else one put_nowait
handle_signal_message(group_id, has_content) ==
    /\ IF ~has_content \/ get_telegram_chat_id(group_id) = NoLookup
       THEN UNCHANGED telegram_send_queue
       ELSE telegram_send_queue' =
                Append(telegram_send_queue,
                       [chat_id |-> get_telegram_chat_id(group_id)[1],
                        is_channel |-> get_telegram_chat_id(group_id)[2]])
    /\ UNCHANGED <<chats, channels, signal_to_telegram, to_send_queue, group_creation_queue,
                   pending_messages, groups_being_created, prov_pc, prov_req>>

process_telegram_send_queue ==
    /\ telegram_send_queue # <<>>
    /\ telegram_send_queue' = Tail(telegram_send_queue)
    /\ UNCHANGED <<chats, channels, signal_to_telegram, to_send_queue, group_creation_queue,
                   pending_messages, groups_being_created, prov_pc, prov_req>>

\* ------------------------------------------------------------ signal_listener.py
\* no line taken yet
NoLine == <<>>

\* SignalSSEListener.__init__, and asyncio.create_task(listener.start()) not yet run
ListenerCreated ==
    /\ l_pc = "init"
    /\ running = FALSE
    /\ session = "none"
    /\ l_attempts = 0
    /\ l_backoffs = 0
    /\ l_fails = 0
    /\ l_oks = 0
    /\ l_stop = FALSE
    /\ l_cancelled = FALSE
    /\ l_line = NoLine
    /\ l_tick = FALSE

\* what a line of the stream holds
LineKinds == {"undecodable", \* bytes that are not UTF-8: line.decode raises UnicodeDecodeError
              "noprefix",    \* does not start with "data:"
              "empty",       \* "data:" and nothing after it
              "malformed",   \* json.loads raises JSONDecodeError
              "nonobject",   \* JSON, but not an object: event.get raises AttributeError
              "nodata",      \* envelope without dataMessage (receipt, typing, sync)
              "direct",      \* dataMessage without groupInfo
              "nogroupid",   \* groupInfo without groupId
              "raising",     \* a group message for which on_message raises
              "group"}       \* a group message

\* start(): _listen() returned although an exception is pending: the loop goes on at
\* once with the next _listen(), no sleep in between
after_listen_NoBackoff ==
    l_pc' = IF running THEN "connecting" ELSE "closing"

\* start() lines 36-48 once _listen() has returned, or raised anything but
\* CancelledError: sleep if still running, else leave the loop and close
after_listen ==
    l_pc' = IF running THEN "backoff" ELSE "closing"

\* start() up to its first suspension: lines 30-35, _listen() lines 52-57
start_begin ==
    /\ l_pc = "init"
    /\ running' = TRUE
    /\ session' = "open"
    /\ l_pc' = "connecting"

\* session.get() is over: status 200 ("ok"), another status ("status": line 58-60), or
\* aiohttp.ClientError ("error": start() line 36)
listen_connect(outcome) ==
    /\ l_pc = "connecting"
    /\ IF outcome = "ok" THEN l_pc' = "streaming" ELSE after_listen
    /\ UNCHANGED <<running, session>>

\* a direct message is handed to on_message as well
listen_line_DirectToo(kind, group_id, has_content) ==
    /\ l_pc = "streaming"
    /\ IF ~running
       THEN after_listen /\ UNCHANGED progVars
       ELSE IF kind \in {"undecodable", "nonobject", "raising"}
       THEN after_listen /\ UNCHANGED progVars
       ELSE IF kind \in {"group", "direct"}
       THEN l_pc' = "streaming" /\ handle_signal_message(group_id, has_content)
       ELSE l_pc' = "streaming" /\ UNCHANGED progVars
    /\ UNCHANGED <<running, session>>

\* async for line in response.content: one line, _listen() lines 64-78 and
\* _handle_event(); on_message is handle_signal_message.  An exception that is not
\* JSONDecodeError leaves _listen() and is caught in start() (line 41).
listen_line(kind, group_id, has_content) ==
    /\ l_pc = "streaming"
    /\ IF ~running
       THEN after_listen /\ UNCHANGED progVars
       ELSE IF kind \in {"undecodable", "nonobject", "raising"}
       THEN after_listen /\ UNCHANGED progVars
       ELSE IF kind = "group"
       THEN l_pc' = "streaming" /\ handle_signal_message(group_id, has_content)
       ELSE l_pc' = "streaming" /\ UNCHANGED progVars
    /\ UNCHANGED <<running, session>>

\* the end of the stream ends the listener: start() leaves its loop and closes
listen_stream_closes_Ends ==
    /\ l_pc = "streaming"
    /\ l_pc' = "closing"
    /\ UNCHANGED <<running, session>>

\* the stream is over: the server closed it (the async for ends) or reading raised
\* aiohttp.ClientError
listen_stream_closes ==
    /\ l_pc = "streaming"
    /\ after_listen
    /\ UNCHANGED <<running, session>>

\* asyncio.sleep(reconnect_delay) is over: line 33, then _listen() or line 48
backoff_ends ==
    /\ l_pc = "backoff"
    /\ l_pc' = IF running THEN "connecting" ELSE "closing"
    /\ UNCHANGED <<running, session>>

\* await self._session.close() is over: start() returns
close_done ==
    /\ l_pc = "closing"
    /\ session' = "closed"
    /\ l_pc' = "stopped"
    /\ UNCHANGED running

\* stop()
stop ==
    /\ running' = FALSE
    /\ UNCHANGED <<l_pc, session>>

\* task.cancel(): CancelledError is raised where start() is suspended.  Inside
\* _listen() it is caught at line 38 (break, then line 48).  The sleep of line 46 and
\* the close of line 48 are outside the try: start() is left with the session as it
\* is.  A task cancelled before its first step never runs.
cancel ==
    /\ l_pc \in {"init", "connecting", "streaming", "backoff", "closing"}
    /\ l_pc' = IF l_pc \in {"connecting", "streaming"} THEN "closing" ELSE "cancelled"
    /\ UNCHANGED <<running, session>>

\* --------------------------- core/signal_to_telegram.py: the Signal -> Telegram worker
NoItem == <<>>
\* an attachment without 'id'
NoId == <<>>

\* attachment ids: a stem and an ending
AttachmentIds == {<<"a", ".m4a">>, <<"a", ".mp4">>, <<"a", ".jpeg">>}

\* attachment_id.endswith(suffix)
EndsWith(attachment_id, suffix) == attachment_id[2] = suffix

\* os.path.join(signal_attachments_path, attachment_id), for the i-th attachment
file_path(i, attachment_id) == <<"attachments", i, attachment_id>>

\* converter.py: output_path = f'/media/{name_without_ext}.ogg'
ogg_path(i, attachment_id) == <<"media", i, <<attachment_id[1], ".ogg">>>>

NoLists == [attachment_paths |-> <<>>, voice_note_paths |-> <<>>, video_note_paths |-> <<>>,
            signal_attachment_paths |-> <<>>, converted_voice_paths |-> <<>>,
            conversions |-> <<>>]

\* an .mp4 is a video note whatever send_video_as_note says
classify_one_VideoAlways(acc, i, attachment_id, converted, video_as_note) ==
    LET fp == file_path(i, attachment_id)
        seen == [acc EXCEPT !.signal_attachment_paths = Append(@, fp)]
    IN  IF EndsWith(attachment_id, ".m4a")
        THEN IF converted
             THEN [seen EXCEPT !.voice_note_paths = Append(@, ogg_path(i, attachment_id)),
                               !.converted_voice_paths = Append(@, ogg_path(i, attachment_id)),
                               !.conversions = Append(@, fp)]
             ELSE [seen EXCEPT !.voice_note_paths = Append(@, fp),
                               !.conversions = Append(@, fp)]
        ELSE IF EndsWith(attachment_id, ".mp4")
        THEN [seen EXCEPT !.video_note_paths = Append(@, fp)]
        ELSE [seen EXCEPT !.attachment_paths = Append(@, fp)]

\* lines 99-118: one attachment whose file exists; converted says whether
\* convert_m4a_to_ogg_opus returned a path (ffmpeg ran and exited 0)
classify_one(acc, i, attachment_id, converted, video_as_note) ==
    LET fp == file_path(i, attachment_id)
        seen == [acc EXCEPT !.signal_attachment_paths = Append(@, fp)]
    IN  IF EndsWith(attachment_id, ".m4a")
        THEN IF converted
             THEN [seen EXCEPT !.voice_note_paths = Append(@, ogg_path(i, attachment_id)),
                               !.converted_voice_paths = Append(@, ogg_path(i, attachment_id)),
                               !.conversions = Append(@, fp)]
             ELSE [seen EXCEPT !.voice_note_paths = Append(@, fp),
                               !.conversions = Append(@, fp)]
        ELSE IF EndsWith(attachment_id, ".mp4") /\ video_as_note
        THEN [seen EXCEPT !.video_note_paths = Append(@, fp)]
        ELSE [seen EXCEPT !.attachment_paths = Append(@, fp)]

\* lines 94-120: for attachment in attachments, from the i-th on
RECURSIVE classify(_, _, _, _, _, _)
classify(acc, atts, i, exists, converted, video_as_note) ==
    IF i > Len(atts) THEN acc
    ELSE IF atts[i] = NoId \/ ~exists[i]
    THEN classify(acc, atts, i + 1, exists, converted, video_as_note)
    ELSE classify(classify_one(acc, i, atts[i], converted[i], video_as_note),
                  atts, i + 1, exists, converted, video_as_note)

Send(kind, files, caption) == [kind |-> kind, files |-> files, caption |-> caption]

\* the video notes go out before the voice notes
telegram_sends_VideoFirst(voices, videos, others, message) ==
    [k \in 1..Len(videos) |-> Send("video_note", <<videos[k]>>, FALSE)]
    \o [k \in 1..Len(voices) |-> Send("voice_note", <<voices[k]>>, FALSE)]
    \o (IF others # <<>>
        THEN (IF Len(others) > 1
              THEN <<Send("album", others, message)>>
              ELSE <<Send("file", <<others[1]>>, message)>>)
        ELSE IF message THEN <<Send("message", <<>>, TRUE)>> ELSE <<>>)

\* lines 122-145: the calls of client.send_file / client.send_message the worker
\* makes for the item, in order, if none raises (caption: the text goes with it)
telegram_sends(voices, videos, others, message) ==
    [k \in 1..Len(voices) |-> Send("voice_note", <<voices[k]>>, FALSE)]
    \o [k \in 1..Len(videos) |-> Send("video_note", <<videos[k]>>, FALSE)]
    \o (IF others # <<>>
        THEN (IF Len(others) > 1
              THEN <<Send("album", others, message)>>
              ELSE <<Send("file", <<others[1]>>, message)>>)
        ELSE IF message THEN <<Send("message", <<>>, TRUE)>> ELSE <<>>)

Range(q) == {q[i] : i \in DOMAIN q}

\* converter.cleanup_files(*paths) on storage `files`: the paths that exist are
\* removed in order.  fail_at = 0: every os.remove succeeds.  fail_at = k: the
\* os.remove of paths[k] raises OSError, the paths before it are gone.
cleanup_files(paths, files, fail_at) ==
    IF fail_at = 0 THEN files \ Range(paths)
    ELSE files \ {paths[j] : j \in 1..(fail_at - 1)}

\* the places where cleanup_files(*paths) can raise
FailPoints(paths, files) == {k \in DOMAIN paths : paths[k] \in files}

\* lines 156-163: finally.  An OSError of os.remove is raised inside the finally
\* block: task_done() is not reached and the exception leaves the while loop.
process_telegram_send_queue_finally(converted, originals, files, fail_at) ==
    /\ b_files' = cleanup_files(converted \o originals, files, fail_at)
    /\ b_acked' = IF fail_at = 0 THEN b_acked + 1 ELSE b_acked
    /\ b_pc' = IF fail_at = 0 THEN "sleep" ELSE "dead"

\* lines 148-151: signal_json_rpc and sender and timestamp
receipt_due(item, sends) == item.receipt_info

\* lines 147-163 once the sends (if any) are over without an exception
process_telegram_send_queue_sent(item, sends, converted, originals, files) ==
    IF receipt_due(item, sends)
    THEN b_pc' = "receipt" /\ b_files' = files /\ UNCHANGED b_acked
    ELSE \E fail_at \in {0} \cup FailPoints(converted \o originals, files) :
             process_telegram_send_queue_finally(converted, originals, files, fail_at)

\* lines 78-120 and on to the first suspension: the item is dequeued, its attachments
\* are classified (exists[i]: os.path.exists of the i-th file; converted[i]: its
\* conversion succeeded), and the first send begins if there is one
process_telegram_send_queue_get(item, exists, converted) ==
    LET lists == classify(NoLists, item.attachments, 1, exists, converted, send_video_as_note)
        files == Range(lists.signal_attachment_paths) \cup Range(lists.converted_voice_paths)
    IN  /\ b_pc = "get"
        /\ b_item' = item
        /\ attachment_paths' = lists.attachment_paths
        /\ voice_note_paths' = lists.voice_note_paths
        /\ video_note_paths' = lists.video_note_paths
        /\ signal_attachment_paths' = lists.signal_attachment_paths
        /\ converted_voice_paths' = lists.converted_voice_paths
        /\ b_conversions' = lists.conversions
        /\ b_sends' = <<>>
        /\ b_receipts' = <<>>
        /\ b_raised' = FALSE
        /\ b_dequeued' = b_dequeued + 1
        /\ IF telegram_sends(lists.voice_note_paths, lists.video_note_paths,
                             lists.attachment_paths, item.message) # <<>>
           THEN b_pc' = "send" /\ b_files' = files /\ UNCHANGED b_acked
           ELSE process_telegram_send_queue_sent(item, <<>>, lists.converted_voice_paths,
                                                 lists.signal_attachment_paths, files)
        /\ UNCHANGED send_video_as_note

\* one client.send_file / send_message call is over: it returned, or it raised
\* (line 154, then finally)
process_telegram_send_queue_send(ok) ==
    LET plan == telegram_sends(voice_note_paths, video_note_paths, attachment_paths,
                               b_item.message)
    IN  /\ b_pc = "send"
        /\ IF ok
           THEN /\ b_sends' = Append(b_sends, plan[Len(b_sends) + 1])
                /\ UNCHANGED b_raised
                /\ IF Len(b_sends) + 1 < Len(plan)
                   THEN b_pc' = "send" /\ UNCHANGED <<b_files, b_acked>>
                   ELSE process_telegram_send_queue_sent(b_item, b_sends', converted_voice_paths,
                                                         signal_attachment_paths, b_files)
           ELSE /\ b_raised' = TRUE
                /\ UNCHANGED b_sends
                /\ \E fail_at \in {0} \cup FailPoints(converted_voice_paths \o signal_attachment_paths, b_files) :
                       process_telegram_send_queue_finally(converted_voice_paths,
                                                           signal_attachment_paths, b_files, fail_at)
        /\ UNCHANGED <<send_video_as_note, b_item, attachment_paths, voice_note_paths,
                       video_note_paths, signal_attachment_paths, converted_voice_paths,
                       b_receipts, b_conversions, b_dequeued>>

\* send_read_receipt is over: status 200 ("ok"), another status ("status") or an
\* exception inside it ("error", caught at line 36); it returns in each case
process_telegram_send_queue_receipt(outcome) ==
    /\ b_pc = "receipt"
    /\ b_receipts' = Append(b_receipts, outcome)
    /\ \E fail_at \in {0} \cup FailPoints(converted_voice_paths \o signal_attachment_paths, b_files) :
           process_telegram_send_queue_finally(converted_voice_paths, signal_attachment_paths,
                                               b_files, fail_at)
    /\ UNCHANGED <<send_video_as_note, b_item, attachment_paths, voice_note_paths,
                   video_note_paths, signal_attachment_paths, converted_voice_paths,
                   b_sends, b_raised, b_conversions, b_dequeued>>

\* await asyncio.sleep(0.5) is over: the next iteration; the item's locals are
\* dead from here on and are forgotten, and so are its files
process_telegram_send_queue_sleep ==
    /\ b_pc = "sleep"
    /\ b_pc' = "get"
    /\ b_item' = NoItem
    /\ attachment_paths' = <<>>
    /\ voice_note_paths' = <<>>
    /\ video_note_paths' = <<>>
    /\ signal_attachment_paths' = <<>>
    /\ converted_voice_paths' = <<>>
    /\ b_files' = {}
    /\ b_sends' = <<>>
    /\ b_receipts' = <<>>
    /\ b_raised' = FALSE
    /\ b_conversions' = <<>>
    /\ UNCHANGED <<send_video_as_note, b_dequeued, b_acked>>

\* the worker as main() creates it, waiting for its first item
B2ACreated ==
    /\ b_pc = "get"
    /\ b_item = NoItem
    /\ attachment_paths = <<>>
    /\ voice_note_paths = <<>>
    /\ video_note_paths = <<>>
    /\ signal_attachment_paths = <<>>
    /\ converted_voice_paths = <<>>
    /\ b_files = {}
    /\ b_sends = <<>>
    /\ b_receipts = <<>>
    /\ b_raised = FALSE
    /\ b_conversions = <<>>
    /\ b_dequeued = 0
    /\ b_acked = 0

\* ----------------------------- telegram_to_signal.py: the Telegram -> Signal worker
\* a_path = '' / converted_path = '' (or None)
NoPath == <<>>

\* client.download_media(msg, file='/media/') for the i-th message of the item
media_path(i, kind) == <<"media", i, kind>>

\* converter.py: output_path = input_path.rsplit('.', 1)[0] + '.m4a'
m4a_path(i) == <<"media", i, "m4a">>

\* process_queue lines 27-32: the item is over (raised: through the except clause)
process_queue_done(raised) ==
    /\ a_raised' = raised
    /\ a_acked' = a_acked + 1
    /\ a_pc' = "sleep"

\* process_message lines 59-84 / process_album lines 122-146: look the group up, get
\* the sender name (msg.get_sender() is awaited for a group chat only), build the
\* payload and begin the POST
send_begin(item) ==
    IF get_signal_group_id(item.chat) = NoGroup
    THEN process_queue_done(FALSE)
    ELSE /\ a_pc' = IF item.is_group THEN "sender" ELSE "post"
         /\ UNCHANGED <<a_raised, a_acked>>

\* process_album lines 105-120: on to the next message of the album, or out of the loop
album_next(item, i) ==
    IF i < Len(item.media)
    THEN /\ a_i' = i + 1
         /\ a_pc' = "mark_read"
         /\ UNCHANGED <<a_raised, a_acked>>
    ELSE /\ a_i' = i
         /\ send_begin(item)

\* item_type, item = await to_send_queue.get(), and on to the first suspension
process_queue_get(item) ==
    /\ a_pc = "get"
    /\ a_item' = item
    /\ a_dequeued' = a_dequeued + 1
    /\ attachments' = <<>>
    /\ a_path' = NoPath
    /\ converted_path' = NoPath
    /\ a_files' = {}
    /\ a_posts' = <<>>
    /\ IF item.type = "message"
       THEN /\ a_i' = 1
            /\ IF item.media[1] # "none"
               THEN a_pc' = "download" /\ a_raised' = FALSE /\ UNCHANGED a_acked
               ELSE send_begin(item)
       ELSE /\ a_i' = 1
            /\ a_pc' = "mark_read"
            /\ a_raised' = FALSE
            /\ UNCHANGED a_acked

\* process_album line 106: msg.mark_read() is over
process_album_marked(ok) ==
    /\ a_pc = "mark_read"
    /\ IF ~ok
       THEN process_queue_done(TRUE) /\ UNCHANGED a_i
       ELSE IF a_item.media[a_i] \in {"photo", "video"}
       THEN a_pc' = "download" /\ UNCHANGED <<a_i, a_raised, a_acked>>
       ELSE album_next(a_item, a_i)
    /\ UNCHANGED <<a_item, attachments, a_path, converted_path, a_files, a_posts, a_dequeued>>

\* the original is not sent when the conversion fails
process_message_downloaded_NoFallback(converted) ==
    /\ a_path' = media_path(1, a_item.media[1])
    /\ IF a_item.media[1] = "voice"
       THEN IF converted
            THEN /\ converted_path' = m4a_path(1)
                 /\ attachments' = <<m4a_path(1)>>
                 /\ a_files' = a_files \cup {a_path', m4a_path(1)}
            ELSE /\ converted_path' = NoPath
                 /\ attachments' = <<>>
                 /\ a_files' = a_files \cup {a_path'}
       ELSE /\ converted_path' = NoPath
            /\ attachments' = <<a_path'>>
            /\ a_files' = a_files \cup {a_path'}
    /\ send_begin(a_item)
    /\ UNCHANGED a_i

\* process_message lines 45-57: the download returned a_path; a voice message is
\* converted (converted: convert_ogg_to_m4a returned a path)
process_message_downloaded(converted) ==
    /\ a_path' = media_path(1, a_item.media[1])
    /\ IF a_item.media[1] = "voice"
       THEN IF converted
            THEN /\ converted_path' = m4a_path(1)
                 /\ attachments' = <<m4a_path(1)>>
                 /\ a_files' = a_files \cup {a_path', m4a_path(1)}
            ELSE /\ converted_path' = NoPath
                 /\ attachments' = <<a_path'>>
                 /\ a_files' = a_files \cup {a_path'}
       ELSE /\ converted_path' = NoPath
            /\ attachments' = <<a_path'>>
            /\ a_files' = a_files \cup {a_path'}
    /\ send_begin(a_item)
    /\ UNCHANGED a_i

\* process_album lines 118-120: the download returned a_path
process_album_downloaded ==
    /\ attachments' = Append(attachments, media_path(a_i, a_item.media[a_i]))
    /\ a_files' = a_files \cup {media_path(a_i, a_item.media[a_i])}
    /\ album_next(a_item, a_i)
    /\ UNCHANGED <<a_path, converted_path>>

\* client.download_media is over: it returned a path, or it raised
process_queue_downloaded(ok, converted) ==
    /\ a_pc = "download"
    /\ IF ~ok
       THEN /\ process_queue_done(TRUE)
            /\ UNCHANGED <<a_i, attachments, a_path, converted_path, a_files>>
       ELSE IF a_item.type = "message"
       THEN process_message_downloaded(converted)
       ELSE process_album_downloaded
    /\ UNCHANGED <<a_item, a_posts, a_dequeued>>

\* get_sender_name is over: the POST begins, or msg.get_sender() raised
process_queue_sender(ok) ==
    /\ a_pc = "sender"
    /\ IF ok
       THEN a_pc' = "post" /\ UNCHANGED <<a_raised, a_acked>>
       ELSE process_queue_done(TRUE)
    /\ UNCHANGED <<a_item, a_i, attachments, a_path, converted_path, a_files, a_posts,
                   a_dequeued>>

\* the paths the item's cleanup is called with: cleanup_files(a_path, converted_path)
\* (line 92), cleanup_files(*attachments) (line 153)
cleanup_paths ==
    IF a_item.type = "message" THEN <<a_path, converted_path>> ELSE attachments

\* session.post / resp.text() is over.  ok: an answer came (any status), then the
\* cleanup of line 92 / 153 runs, and an OSError of it is caught by process_queue.
\* Not ok: the request raised, the function is left at once.
process_queue_posted(ok, fail_at) ==
    /\ a_pc = "post"
    /\ IF ok
       THEN /\ a_posts' = Append(a_posts, attachments)
            /\ a_files' = cleanup_files(cleanup_paths, a_files, fail_at)
            /\ process_queue_done(fail_at # 0)
       ELSE /\ fail_at = 0
            /\ UNCHANGED <<a_posts, a_files>>
            /\ process_queue_done(TRUE)
    /\ UNCHANGED <<a_item, a_i, attachments, a_path, converted_path, a_dequeued>>

\* await asyncio.sleep(1) is over: the next iteration; the item's locals are dead
\* from here on and are forgotten, and so are its files
process_queue_sleep ==
    /\ a_pc = "sleep"
    /\ a_pc' = "get"
    /\ a_item' = NoItem
    /\ a_i' = 0
    /\ attachments' = <<>>
    /\ a_path' = NoPath
    /\ converted_path' = NoPath
    /\ a_files' = {}
    /\ a_posts' = <<>>
    /\ a_raised' = FALSE
    /\ UNCHANGED <<a_dequeued, a_acked>>

\* the worker as main() creates it, waiting for its first item
A2BCreated ==
    /\ a_pc = "get"
    /\ a_item = NoItem
    /\ a_i = 0
    /\ attachments = <<>>
    /\ a_path = NoPath
    /\ converted_path = NoPath
    /\ a_files = {}
    /\ a_posts = <<>>
    /\ a_raised = FALSE
    /\ a_dequeued = 0
    /\ a_acked = 0

DeliveryCreated ==
    /\ send_video_as_note = TRUE
    /\ B2ACreated
    /\ A2BCreated

\* ------------------------------------------------------------- the state machine
Item(chat_id, n) == [chat |-> chat_id, id |-> n]

Op(name, chat_id, is_channel, n) == [op |-> name, chat |-> chat_id, flag |-> is_channel, n |-> n]

\* ---------------------------------------------------------- markdown_converter.py
\* A text is a sequence of characters (code points), each a one-element string.
NoResult == <<>>
NoMatch == <<>>

\* a character outside the Basic Multilingual Plane: one code point, two UTF-16 units
Astral == "U+1F600"

\* the grave accent U+0060, the monospace marker
Backquote == "U+0060"

\* the length is counted in code points
get_utf16_length_CodePoints(s) == Len(s)

\* len(s.encode('utf-16-le')) // 2
get_utf16_length(s) == Len(s) + Cardinality({i \in DOMAIN s : s[i] = Astral})

\* patterns: open marker, ([\s\S]+?), what follows the inner span; the link form is
\* \[([\s\S]+?)\]\([^\)]+\)
Patterns ==
    << [open |-> <<"*", "*">>, close |-> <<"*", "*">>, link |-> FALSE, style |-> "BOLD"],
       [open |-> <<"_", "_">>, close |-> <<"_", "_">>, link |-> FALSE, style |-> "ITALIC"],
       [open |-> <<"~", "~">>, close |-> <<"~", "~">>, link |-> FALSE, style |-> "STRIKETHROUGH"],
       [open |-> <<"|", "|">>, close |-> <<"|", "|">>, link |-> FALSE, style |-> "SPOILER"],
       [open |-> <<Backquote>>, close |-> <<Backquote>>, link |-> FALSE, style |-> "MONOSPACE"],
       [open |-> <<"[">>, close |-> <<"]", "(">>, link |-> TRUE, style |-> "ITALIC"] >>

Min(S) == CHOOSE x \in S : \A y \in S : x <= y

\* the marker m stands in t at index i
StartsAt(t, i, m) ==
    /\ i >= 1
    /\ i + Len(m) - 1 <= Len(t)
    /\ \A j \in DOMAIN m : t[i + j - 1] = m[j]

\* the inner span may be empty
inner_spans_FromZero(n) == 0..n

\* [\s\S]+? : the lengths the inner span can have, tried shortest first
inner_spans(n) == 1..n

\* the index after the match of what follows the inner span of p, tried at index j;
\* 0 if it does not match there.  In the link form [^\)]+ takes every character up
\* to the first ")" and needs at least one.
close_end(t, j, p) ==
    IF ~StartsAt(t, j, p.close) THEN 0
    ELSE IF ~p.link THEN j + Len(p.close)
    ELSE LET parens == {r \in (j + 2)..Len(t) : t[r] = ")"}
         IN  IF parens = {} THEN 0
             ELSE IF Min(parens) = j + 2 THEN 0
             ELSE Min(parens) + 1

\* the match of pattern p that starts at index i: the shortest inner span after
\* which the rest of the pattern matches
match_at(t, i, p) ==
    IF ~StartsAt(t, i, p.open) THEN NoMatch
    ELSE LET from == i + Len(p.open)
             ks == {k \in inner_spans(Len(t) - from + 1) : close_end(t, from + k, p) # 0}
         IN  IF ks = {} THEN NoMatch
             ELSE [start |-> i, end |-> close_end(t, from + Min(ks), p)]

\* combined = '|'.join(...): the first alternative that matches at index i
combined_at(t, i) ==
    LET qs == {q \in DOMAIN Patterns : match_at(t, i, Patterns[q]) # NoMatch}
    IN  IF qs = {} THEN NoMatch ELSE match_at(t, i, Patterns[Min(qs)])

\* re.finditer(combined, text): the leftmost match at or after index i
next_match(t, i) ==
    LET starts == {j \in i..Len(t) : combined_at(t, j) # NoMatch}
    IN  IF starts = {} THEN NoMatch ELSE combined_at(t, Min(starts))

\* re.fullmatch(pattern, matched_text): the shortest inner span after which the
\* rest of the pattern matches up to the end of the text
fullmatch(p, t) ==
    IF ~StartsAt(t, 1, p.open) THEN NoMatch
    ELSE LET from == 1 + Len(p.open)
             ks == {k \in inner_spans(Len(t) - from + 1) :
                       close_end(t, from + k, p) = Len(t) + 1}
         IN  IF ks = {} THEN NoMatch
             ELSE [inner_text |-> SubSeq(t, from, from + Min(ks) - 1), style |-> p.style]

\* for pattern, style in patterns: the first pattern that matches the whole of
\* matched_text (lines 36-39)
inner_match(matched_text) ==
    LET qs == {q \in DOMAIN Patterns : fullmatch(Patterns[q], matched_text) # NoMatch}
    IN  IF qs = {} THEN NoMatch ELSE fullmatch(Patterns[Min(qs)], matched_text)

\* the text after the last match is lost
tail_text_Dropped(text, last_end) == <<>>

\* text[last_end:]
tail_text(text, last_end) == SubSeq(text, last_end + 1, Len(text))

\* a style "start:length:STYLE"
Style(start, length, style) == [start |-> start, length |-> length, style |-> style]

\* lines 50-53: split(':'), int(inner_start) + start_pos, and the string again
adjusted(inner_styles, start_pos) ==
    [i \in DOMAIN inner_styles |->
        Style(start_pos + inner_styles[i].start, inner_styles[i].length,
              inner_styles[i].style)]

\* the nested ranges are listed before the range of the match
match_styles_InnerFirst(start_pos, length, style, inner_styles) ==
    adjusted(inner_styles, start_pos) \o <<Style(start_pos, length, style)>>

\* lines 47-53: the range of the match, then the nested ranges
match_styles(start_pos, length, style, inner_styles) ==
    <<Style(start_pos, length, style)>> \o adjusted(inner_styles, start_pos)

\* the loop of lines 31-58 from last_end on, then lines 60-62
RECURSIVE convert_from(_, _, _, _)
convert_from(text, last_end, result_text, styles) ==
    LET match == next_match(text, last_end + 1)
    IN  IF match = NoMatch
        THEN [text |-> result_text \o tail_text(text, last_end), styles |-> styles]
        ELSE LET before == result_text \o SubSeq(text, last_end + 1, match.start - 1)
                 inner == inner_match(SubSeq(text, match.start, match.end - 1))
             IN  IF inner = NoMatch
                 THEN convert_from(text, match.end - 1, before, styles)
                 ELSE LET parsed == convert_from(inner.inner_text, 0, <<>>, <<>>)
                      IN  convert_from(text, match.end - 1, before \o parsed.text,
                                       styles \o match_styles(get_utf16_length(before),
                                                              get_utf16_length(parsed.text),
                                                              inner.style, parsed.styles))

convert_telegram_markdown(text) == convert_from(text, 0, <<>>, <<>>)

\* no call of the converter is in progress
ConverterIdle ==
    /\ md_text = <<>>
    /\ md_result = NoResult

\* ------------------------------------------- utils/signal_group.py, step by step
\* the call raised (os.remove failed in the finally block), as a result
Raised == "raised"

\* where client.download_media stores the profile photo of the n-th call
icon_path(n) == <<"media", "profile_photo", n>>

\* no call of create_signal_group has been made
CreateIdle ==
    /\ c_pc = "idle"
    /\ c_req = NoReq
    /\ profile_pic_path = NoPath
    /\ c_files = {}
    /\ c_result = NoResult
    /\ c_how = "none"
    /\ c_calls = 0

\* the finally block runs only when the group was created
create_signal_group_finally_OnSuccessOnly(result, how, fail) ==
    /\ c_pc' = "done"
    /\ c_how' = how
    /\ c_result' = result
    /\ c_files' = IF how = "created" THEN c_files \ {profile_pic_path} ELSE c_files
    /\ UNCHANGED <<c_req, profile_pic_path, c_calls>>

\* lines 94-101: the finally block, then the return of line 87, 93, 99 or 101.
\* os.remove raises (fail) or removes the file; when it raises, the exception
\* replaces the return.
create_signal_group_finally(result, how, fail) ==
    /\ c_pc' = "done"
    /\ IF profile_pic_path # NoPath /\ profile_pic_path \in c_files
       THEN IF fail
            THEN c_result' = Raised /\ c_how' = "remove_failed" /\ c_files' = c_files
            ELSE c_result' = result /\ c_how' = how
                 /\ c_files' = c_files \ {profile_pic_path}
       ELSE c_result' = result /\ c_how' = how /\ c_files' = c_files
    /\ UNCHANGED <<c_req, profile_pic_path, c_calls>>

\* the worker calls create_signal_group: lines 24-28, up to `await client.get_entity`
create_signal_group_call(chat_id, is_channel) ==
    /\ c_pc \in {"idle", "done"}
    /\ c_pc' = "get_entity"
    /\ c_req' = <<chat_id, is_channel>>
    /\ profile_pic_path' = NoPath
    /\ c_result' = NoResult
    /\ c_how' = "none"
    /\ c_calls' = c_calls + 1
    /\ UNCHANGED c_files

\* get_entity returned or raised (lines 29-31: return None), then lines 33-46 up to
\* `await client.get_profile_photos`
create_signal_group_entity(ok) ==
    /\ c_pc = "get_entity"
    /\ IF ok
       THEN c_pc' = "get_profile_photos" /\ UNCHANGED <<c_result, c_how>>
       ELSE c_pc' = "done" /\ c_result' = NoGroup /\ c_how' = "no_entity"
    /\ UNCHANGED <<c_req, profile_pic_path, c_files, c_calls>>

\* get_profile_photos returned photos, returned none, or raised (lines 50-51): on to
\* line 48, or to the request of lines 53-83
create_signal_group_photos(outcome) ==
    /\ c_pc = "get_profile_photos"
    /\ c_pc' = IF outcome = "photos" THEN "download_media" ELSE "post"
    /\ UNCHANGED <<c_req, profile_pic_path, c_files, c_result, c_how, c_calls>>

\* download_media returned the path of the file it wrote, returned None, or raised:
\* lines 48-51, then lines 53-83 up to `session.post`
create_signal_group_downloaded(outcome) ==
    /\ c_pc = "download_media"
    /\ IF outcome = "path"
       THEN /\ profile_pic_path' = icon_path(c_calls)
            /\ c_files' = c_files \cup {icon_path(c_calls)}
       ELSE UNCHANGED <<profile_pic_path, c_files>>
    /\ c_pc' = "post"
    /\ UNCHANGED <<c_req, c_result, c_how, c_calls>>

\* session.post answered 200 (on to resp.json()), answered another status (on to
\* resp.text()), or raised (lines 91-93, then the finally block)
create_signal_group_posted(outcome, fail) ==
    /\ c_pc = "post"
    /\ IF outcome = "raised"
       THEN create_signal_group_finally(NoGroup, "exception", fail)
       ELSE /\ c_pc' = IF outcome = "200" THEN "json" ELSE "text"
            /\ UNCHANGED <<c_req, profile_pic_path, c_files, c_result, c_how, c_calls>>

\* resp.text() returned (lines 86-87: return None) or raised (lines 91-93)
create_signal_group_text(ok, fail) ==
    /\ c_pc = "text"
    /\ create_signal_group_finally(NoGroup, IF ok THEN "status" ELSE "exception", fail)

\* resp.json() returned a body with result.groupId (lines 88-90, 101), a body with an
\* empty id (lines 98-99), a body without it (KeyError, lines 91-93), or raised
create_signal_group_json(outcome, group_id, fail) ==
    /\ c_pc = "json"
    /\ IF outcome = "group"
       THEN create_signal_group_finally(group_id, "created", fail)
       ELSE create_signal_group_finally(NoGroup,
                IF outcome = "empty" THEN "empty" ELSE "exception", fail)

\* ------------------------------------------------ handlers/telegram_handlers.py
\* a Telegram event: the handler it goes to, its chat, event.is_channel, whether the
\* message has a grouped_id (it is part of an album), and the number of the event
Event(handler, chat_id, is_channel, grouped, n) ==
    [handler |-> handler, chat |-> chat_id, is_channel |-> is_channel, grouped |-> grouped,
     n |-> n]

should_mark_read(is_channel) ==
    (is_channel /\ enable_read_channels) \/ (~is_channel /\ enable_read_messages)

\* the handler returns, or mark_read() raised: queue_or_create_group is not called
handler_returns == UNCHANGED progVars

\* the channel test is missing
message_handler_rest_NoChannelTest(e) ==
    IF e.grouped
    THEN handler_returns
    ELSE queue_or_create_group(e.chat, e.is_channel, Item(e.chat, e.n))

\* message_handler lines 46-55: what follows mark_read()
message_handler_rest(e) ==
    IF e.is_channel /\ ~enable_channels
    THEN handler_returns
    ELSE IF e.grouped
    THEN handler_returns
    ELSE queue_or_create_group(e.chat, e.is_channel, Item(e.chat, e.n))

\* album_handler lines 33-34: what follows the mark_read() calls
album_handler_rest(e) == queue_or_create_group(e.chat, e.is_channel, Item(e.chat, e.n))

\* message_handler up to its first suspension (lines 38-44), or to its end
message_handler(e) ==
    IF should_mark_read(e.is_channel)
    THEN h_pending' = h_pending \cup {e} /\ UNCHANGED progVars
    ELSE h_pending' = h_pending /\ message_handler_rest(e)

\* album_handler up to its first suspension (lines 19-31), or to its end.  The
\* mark_read() calls of the album's messages follow each other with no access to
\* shared state in between: they are one suspension here.
album_handler(e) ==
    IF e.is_channel /\ ~enable_channels
    THEN h_pending' = h_pending /\ handler_returns
    ELSE IF should_mark_read(e.is_channel)
    THEN h_pending' = h_pending \cup {e} /\ UNCHANGED progVars
    ELSE h_pending' = h_pending /\ album_handler_rest(e)

\* mark_read() returned (ok) or raised: the handler goes on, or is over
mark_read_done(e, ok) ==
    /\ e \in h_pending
    /\ h_pending' = h_pending \ {e}
    /\ IF ~ok THEN handler_returns
       ELSE IF e.handler = "message" THEN message_handler_rest(e)
       ELSE album_handler_rest(e)

\* register_handlers() with its default parameters, no event received yet
HandlersRegistered ==
    /\ enable_channels = TRUE
    /\ enable_read_messages = TRUE
    /\ enable_read_channels = TRUE
    /\ h_pending = {}

\* init_queues(), with a config.json that maps nothing yet.  A config.json that
\* maps conversations is the state the program is in after provisioning them with
\* every queue drained, which the behaviours below reach.
Init ==
    /\ chats = <<>>
    /\ channels = <<>>
    /\ signal_to_telegram = build_reverse_mapping(chats, channels)
    /\ to_send_queue = <<>>
    /\ group_creation_queue = <<>>
    /\ telegram_send_queue = <<>>
    /\ pending_messages = <<>>
    /\ groups_being_created = {}
    /\ prov_pc = "get"
    /\ prov_req = NoReq
    /\ nextItem = 1
    /\ last = Op("init", 0, FALSE, 0)
    /\ round = [c \in ChatIds |-> <<>>]
    /\ discarded = {}
    /\ placed = {}
    /\ ListenerCreated
    /\ DeliveryCreated
    /\ HandlersRegistered
    /\ ConverterIdle
    /\ CreateIdle

\* history: the items this step appends to to_send_queue (put_nowait) are recorded
RecordPlaced ==
    placed' = placed \cup {to_send_queue'[i] : i \in (Len(to_send_queue) + 1)..Len(to_send_queue')}

\* a Telegram handler calls queue_or_create_group(chat_id, is_channel, item)
Route ==
    \E chat_id \in ChatIds, is_channel \in BOOLEAN :
        /\ nextItem <= MaxItems
        /\ queue_or_create_group(chat_id, is_channel, Item(chat_id, nextItem))
        /\ nextItem' = nextItem + 1
        /\ last' = Op("route", chat_id, is_channel, nextItem)
        /\ round' = IF Mapped(chat_id) THEN round
                    ELSE [round EXCEPT ![chat_id] = Append(@, <<Item(chat_id, nextItem), is_channel>>)]
        /\ UNCHANGED discarded
        /\ RecordPlaced
        /\ UNCHANGED pipeVars

ProvGet ==
    /\ prov_get
    /\ UNCHANGED <<nextItem, last, round, discarded, placed>>
    /\ UNCHANGED pipeVars

Resolved(name, group_id) ==
    /\ prov_pc' = "sleep"
    /\ prov_req' = NoReq
    /\ last' = Op(name, prov_req[1], prov_req[2], group_id)
    /\ round' = [round EXCEPT ![prov_req[1]] = <<>>]
    /\ RecordPlaced
    /\ UNCHANGED nextItem

ProvSuccess ==
    /\ prov_pc = "create"
    /\ \E group_id \in CreatedGroupIds :
        /\ process_group_creation_queue_success(prov_req[1], prov_req[2], group_id)
        /\ Resolved("success", group_id)
    /\ UNCHANGED discarded
    /\ UNCHANGED pipeVars

ProvSaveRaises ==
    /\ prov_pc = "create"
    /\ \E group_id \in CreatedGroupIds :
        /\ process_group_creation_queue_save_raises(prov_req[1], prov_req[2], group_id)
        /\ Resolved("save_raised", group_id)
    /\ UNCHANGED discarded
    /\ UNCHANGED pipeVars

ProvFailure ==
    /\ prov_pc = "create"
    /\ process_group_creation_queue_failure(prov_req[1])
    /\ Resolved("failure", NoGroup)
    /\ discarded' = discarded \cup
           (IF prov_req[1] \in DOMAIN pending_messages
            THEN {pending_messages[prov_req[1]][i] : i \in DOMAIN pending_messages[prov_req[1]]}
            ELSE {})
    /\ UNCHANGED pipeVars

ProvCreateRaises ==
    /\ prov_pc = "create"
    /\ process_group_creation_queue_create_raises(prov_req[1])
    /\ Resolved("create_raised", NoGroup)
    /\ UNCHANGED discarded
    /\ UNCHANGED pipeVars

ProvSleep ==
    /\ prov_sleep
    /\ UNCHANGED <<nextItem, last, round, discarded, placed>>
    /\ UNCHANGED pipeVars

Deliver ==
    /\ process_queue
    /\ UNCHANGED <<nextItem, last, round, discarded, placed>>
    /\ UNCHANGED pipeVars

SignalEvent ==
    \E group_id \in GroupIds, has_content \in BOOLEAN :
        /\ Len(telegram_send_queue) < MaxSignalQueue
        /\ handle_signal_message(group_id, has_content)
        /\ UNCHANGED <<nextItem, last, round, discarded, placed>>
        /\ UNCHANGED pipeVars

DeliverToTelegram ==
    /\ process_telegram_send_queue
    /\ UNCHANGED <<nextItem, last, round, discarded, placed>>
    /\ UNCHANGED pipeVars

Next ==
    \/ Route
    \/ ProvGet
    \/ ProvSuccess
    \/ ProvSaveRaises
    \/ ProvFailure
    \/ ProvCreateRaises
    \/ ProvSleep
    \/ Deliver
    \/ SignalEvent
    \/ DeliverToTelegram

Spec == Init /\ [][Next]_vars

\* ------------------------------------------------- the handlers' state machine
\* a config.json that maps nothing yet; ENABLE_CHANNELS and the two read settings
\* are set or not
InitHandlers ==
    /\ chats = <<>>
    /\ channels = <<>>
    /\ signal_to_telegram = build_reverse_mapping(chats, channels)
    /\ to_send_queue = <<>>
    /\ group_creation_queue = <<>>
    /\ telegram_send_queue = <<>>
    /\ pending_messages = <<>>
    /\ groups_being_created = {}
    /\ prov_pc = "get"
    /\ prov_req = NoReq
    /\ nextItem = 1
    /\ last = Op("init", 0, FALSE, 0)
    /\ round = [c \in ChatIds |-> <<>>]
    /\ discarded = {}
    /\ placed = {}
    /\ ListenerCreated
    /\ DeliveryCreated
    /\ enable_channels \in BOOLEAN
    /\ enable_read_messages \in BOOLEAN
    /\ enable_read_channels \in BOOLEAN
    /\ h_pending = {}
    /\ ConverterIdle
    /\ CreateIdle

\* Telethon calls a handler with a new event
HEvent ==
    /\ nextItem <= MaxEvents
    /\ \E handler \in {"message", "album"}, chat_id \in ChatIds, is_channel \in BOOLEAN,
          grouped \in BOOLEAN :
        /\ handler = "album" => grouped
        /\ IF handler = "message"
           THEN message_handler(Event(handler, chat_id, is_channel, grouped, nextItem))
           ELSE album_handler(Event(handler, chat_id, is_channel, grouped, nextItem))
        /\ last' = Op(handler, chat_id, is_channel, nextItem)
    /\ nextItem' = nextItem + 1
    /\ RecordPlaced
    /\ UNCHANGED <<round, discarded>>
    /\ UNCHANGED <<listenerVars, deliveryVars, mdVars, createVars, enable_channels,
                   enable_read_messages, enable_read_channels>>

\* a handler suspended in mark_read() goes on
HMarked ==
    \E e \in h_pending, ok \in BOOLEAN :
        /\ mark_read_done(e, ok)
        /\ last' = Op("mark_read", e.chat, e.is_channel, e.n)
        /\ RecordPlaced
        /\ UNCHANGED <<nextItem, round, discarded>>
        /\ UNCHANGED <<listenerVars, deliveryVars, mdVars, createVars, enable_channels,
                       enable_read_messages, enable_read_channels>>

\* the listener hands a group message to handle_signal_message
HSignal ==
    /\ nextItem <= MaxEvents
    /\ Len(telegram_send_queue) < MaxSignalQueue
    /\ \E group_id \in GroupIds, has_content \in BOOLEAN :
        /\ handle_signal_message(group_id, has_content)
        /\ last' = Op("signal", group_id, has_content, nextItem)
    /\ nextItem' = nextItem + 1
    /\ UNCHANGED <<round, discarded, placed>>
    /\ UNCHANGED pipeVars

NextHandlers ==
    \/ HEvent
    \/ HMarked
    \/ HSignal
    \/ ProvGet
    \/ ProvSuccess
    \/ ProvSaveRaises
    \/ ProvFailure
    \/ ProvCreateRaises
    \/ ProvSleep
    \/ Deliver
    \/ DeliverToTelegram

SpecHandlers == InitHandlers /\ [][NextHandlers]_vars

\* ------------------------------------------------- the converter's state machine
\* the pieces the texts are made of: the markers, single characters that are part
\* of a marker, a letter, and a character that takes two UTF-16 units
Tokens ==
    {<<"*", "*">>, <<"_", "_">>, <<Backquote>>, <<"[">>, <<"]", "(", "u", ")">>,
     <<"*">>, <<"x">>, <<Astral>>}

RECURSIVE Concat(_)
Concat(ts) == IF ts = <<>> THEN <<>> ELSE Head(ts) \o Concat(Tail(ts))

Texts == {Concat(ts) : ts \in UNION {[1..k -> Tokens] : k \in 0..MaxTokens}}

\* a caller is about to convert a message text
InitMarkdown ==
    /\ chats = <<>>
    /\ channels = <<>>
    /\ signal_to_telegram = build_reverse_mapping(chats, channels)
    /\ to_send_queue = <<>>
    /\ group_creation_queue = <<>>
    /\ telegram_send_queue = <<>>
    /\ pending_messages = <<>>
    /\ groups_being_created = {}
    /\ prov_pc = "get"
    /\ prov_req = NoReq
    /\ nextItem = 1
    /\ last = Op("init", 0, FALSE, 0)
    /\ round = [c \in ChatIds |-> <<>>]
    /\ discarded = {}
    /\ placed = {}
    /\ ListenerCreated
    /\ DeliveryCreated
    /\ HandlersRegistered
    /\ md_text \in Texts
    /\ md_result = NoResult
    /\ CreateIdle

\* parsed_text, styles = markdown_converter.convert_telegram_markdown(message_text)
MdConvert ==
    /\ md_result = NoResult
    /\ md_result' = convert_telegram_markdown(md_text)
    /\ UNCHANGED <<progVars, histVars, listenerVars, deliveryVars, handlerVars, createVars,
                   md_text>>

NextMarkdown == MdConvert

SpecMarkdown == InitMarkdown /\ [][NextMarkdown]_vars

\* ------------------------------------- the state machine of create_signal_group
\* the provisioning worker calls create_signal_group for one request after the
\* other; the requests are those route() can enqueue
InitCreate ==
    /\ chats = <<>>
    /\ channels = <<>>
    /\ signal_to_telegram = build_reverse_mapping(chats, channels)
    /\ to_send_queue = <<>>
    /\ group_creation_queue = <<>>
    /\ telegram_send_queue = <<>>
    /\ pending_messages = <<>>
    /\ groups_being_created = {}
    /\ prov_pc = "get"
    /\ prov_req = NoReq
    /\ nextItem = 1
    /\ last = Op("init", 0, FALSE, 0)
    /\ round = [c \in ChatIds |-> <<>>]
    /\ discarded = {}
    /\ placed = {}
    /\ ListenerCreated
    /\ DeliveryCreated
    /\ HandlersRegistered
    /\ ConverterIdle
    /\ CreateIdle

CreateOthers == <<progVars, histVars, listenerVars, deliveryVars, handlerVars, mdVars>>

CCall ==
    /\ c_calls < MaxRequests
    /\ \E chat_id \in ChatIds, is_channel \in BOOLEAN :
           create_signal_group_call(chat_id, is_channel)
    /\ UNCHANGED CreateOthers

CEntity ==
    /\ \E ok \in BOOLEAN : create_signal_group_entity(ok)
    /\ UNCHANGED CreateOthers

CPhotos ==
    /\ \E outcome \in {"photos", "none", "raised"} : create_signal_group_photos(outcome)
    /\ UNCHANGED CreateOthers

CDownloaded ==
    /\ \E outcome \in {"path", "none", "raised"} : create_signal_group_downloaded(outcome)
    /\ UNCHANGED CreateOthers

CPosted ==
    /\ \E outcome \in {"200", "status", "raised"}, fail \in BOOLEAN :
           create_signal_group_posted(outcome, fail)
    /\ UNCHANGED CreateOthers

CText ==
    /\ \E ok \in BOOLEAN, fail \in BOOLEAN : create_signal_group_text(ok, fail)
    /\ UNCHANGED CreateOthers

CJson ==
    /\ \E outcome \in {"group", "empty", "nogroup", "raised"}, group_id \in CreatedGroupIds,
          fail \in BOOLEAN :
           create_signal_group_json(outcome, group_id, fail)
    /\ UNCHANGED CreateOthers

NextCreate ==
    \/ CCall
    \/ CEntity
    \/ CPhotos
    \/ CDownloaded
    \/ CPosted
    \/ CText
    \/ CJson

SpecCreate == InitCreate /\ [][NextCreate]_vars

\* ------------------------------------------------- the listener's state machine
\* config.json maps conversation 1 to group 1; the other groups are unknown
InitListener ==
    /\ chats = <<<<1, 1>>>>
    /\ channels = <<>>
    /\ signal_to_telegram = build_reverse_mapping(chats, channels)
    /\ to_send_queue = <<>>
    /\ group_creation_queue = <<>>
    /\ telegram_send_queue = <<>>
    /\ pending_messages = <<>>
    /\ groups_being_created = {}
    /\ prov_pc = "get"
    /\ prov_req = NoReq
    /\ nextItem = 1
    /\ last = Op("init", 0, FALSE, 0)
    /\ round = [c \in ChatIds |-> <<>>]
    /\ discarded = {}
    /\ placed = {}
    /\ ListenerCreated
    /\ DeliveryCreated
    /\ HandlersRegistered
    /\ ConverterIdle
    /\ CreateIdle

\* the history counts a step of start() that begins a connection attempt or a sleep
ListenerCounts ==
    /\ l_attempts' = IF l_pc' = "connecting" THEN l_attempts + 1 ELSE l_attempts
    /\ l_backoffs' = IF l_pc' = "backoff" THEN l_backoffs + 1 ELSE l_backoffs
    /\ UNCHANGED <<nextItem, last, round, discarded, placed>>

LStart ==
    /\ start_begin
    /\ ListenerCounts
    /\ UNCHANGED <<progVars, l_fails, l_oks, l_stop, l_cancelled, l_line, l_tick>>
    /\ UNCHANGED <<deliveryVars, handlerVars, mdVars, createVars>>

LConnect ==
    \E outcome \in {"ok", "status", "error"} :
        /\ listen_connect(outcome)
        /\ l_attempts < MaxAttempts \/ l_pc' # "connecting"
        /\ ListenerCounts
        /\ l_oks' = IF outcome = "ok" THEN l_oks + 1 ELSE l_oks
        /\ l_fails' = IF outcome = "ok" THEN l_fails ELSE l_fails + 1
        /\ UNCHANGED <<progVars, l_stop, l_cancelled, l_line, l_tick>>
        /\ UNCHANGED <<deliveryVars, handlerVars, mdVars, createVars>>

LLine ==
    \E kind \in LineKinds, group_id \in GroupIds, has_content \in BOOLEAN :
        /\ (kind = "group" /\ has_content) => Len(telegram_send_queue) < MaxSignalQueue
        /\ listen_line(kind, group_id, has_content)
        /\ l_attempts < MaxAttempts \/ l_pc' # "connecting"
        /\ ListenerCounts
        /\ l_line' = [kind |-> kind, group_id |-> group_id, has_content |-> has_content]
        /\ l_tick' = ~l_tick
        /\ UNCHANGED <<l_fails, l_oks, l_stop, l_cancelled>>
        /\ UNCHANGED <<deliveryVars, handlerVars, mdVars, createVars>>

LStreamCloses ==
    /\ listen_stream_closes
    /\ l_attempts < MaxAttempts \/ l_pc' # "connecting"
    /\ ListenerCounts
    /\ UNCHANGED <<progVars, l_fails, l_oks, l_stop, l_cancelled, l_line, l_tick>>
    /\ UNCHANGED <<deliveryVars, handlerVars, mdVars, createVars>>

LBackoffEnds ==
    /\ backoff_ends
    /\ l_attempts < MaxAttempts \/ l_pc' # "connecting"
    /\ ListenerCounts
    /\ UNCHANGED <<progVars, l_fails, l_oks, l_stop, l_cancelled, l_line, l_tick>>
    /\ UNCHANGED <<deliveryVars, handlerVars, mdVars, createVars>>

LCloseDone ==
    /\ close_done
    /\ UNCHANGED <<progVars, histVars, l_attempts, l_backoffs, l_fails, l_oks, l_stop, l_cancelled,
                   l_line, l_tick>>
    /\ UNCHANGED <<deliveryVars, handlerVars, mdVars, createVars>>

LStop ==
    /\ l_pc \notin {"stopped", "cancelled"}
    /\ stop
    /\ l_stop' = TRUE
    /\ UNCHANGED <<progVars, histVars, l_attempts, l_backoffs, l_fails, l_oks, l_cancelled,
                   l_line, l_tick>>
    /\ UNCHANGED <<deliveryVars, handlerVars, mdVars, createVars>>

LCancel ==
    /\ cancel
    /\ l_cancelled' = TRUE
    /\ UNCHANGED <<progVars, histVars, l_attempts, l_backoffs, l_fails, l_oks, l_stop,
                   l_line, l_tick>>
    /\ UNCHANGED <<deliveryVars, handlerVars, mdVars, createVars>>

NextListener ==
    \/ LStart
    \/ LConnect
    \/ LLine
    \/ LStreamCloses
    \/ LBackoffEnds
    \/ LCloseDone
    \/ LStop
    \/ LCancel
    \/ DeliverToTelegram

SpecListener == InitListener /\ [][NextListener]_vars

\* what the event loop does without waiting for the network: it runs a task that
\* was created, fires a timer that is due, and finishes closing a session
ListenerRuns == LStart \/ LBackoffEnds \/ LCloseDone

\* a connection attempt is answered or fails: the peer answers, or the operating
\* system gives the connection up
ListenerFair == InitListener /\ [][NextListener]_vars /\ WF_vars(ListenerRuns) /\ WF_vars(LConnect)

\* ------------------------------------------- the delivery workers' state machine
SeqsUpTo(S, n) == UNION {[1..k -> S] : k \in 0..n}

\* what telegram_send_queue can hold: handle_signal_message enqueues a message that
\* has text or attachments; an attachment has an id or not
B2AItems ==
    {it \in [attachments : SeqsUpTo(AttachmentIds \cup {NoId}, MaxAttachments),
             message : BOOLEAN, receipt_info : BOOLEAN] :
        it.attachments # <<>> \/ it.message}

\* what to_send_queue can hold: ('message', msg) with at most one medium, or
\* ('album', event) with one to MaxAttachments messages, of a mapped conversation
A2BItems ==
    {it \in [type : {"message"}, chat : ChatIds, is_group : BOOLEAN,
             media : {<<k>> : k \in {"none", "photo", "video", "voice"}}] :
        Mapped(it.chat)}
    \cup
    {it \in [type : {"album"}, chat : ChatIds, is_group : BOOLEAN,
             media : SeqsUpTo({"photo", "document"}, MaxAttachments) \ {<<>>}] :
        Mapped(it.chat)}

\* config.json maps conversation 1 to group 1; SEND_VIDEO_AS_NOTE is set or not
InitDelivery ==
    /\ chats = <<<<1, 1>>>>
    /\ channels = <<>>
    /\ signal_to_telegram = build_reverse_mapping(chats, channels)
    /\ to_send_queue = <<>>
    /\ group_creation_queue = <<>>
    /\ telegram_send_queue = <<>>
    /\ pending_messages = <<>>
    /\ groups_being_created = {}
    /\ prov_pc = "get"
    /\ prov_req = NoReq
    /\ nextItem = 1
    /\ last = Op("init", 0, FALSE, 0)
    /\ round = [c \in ChatIds |-> <<>>]
    /\ discarded = {}
    /\ placed = {}
    /\ ListenerCreated
    /\ send_video_as_note \in BOOLEAN
    /\ B2ACreated
    /\ A2BCreated
    /\ HandlersRegistered
    /\ ConverterIdle
    /\ CreateIdle

\* The two workers have no variable in common: a step of one leaves the other's
\* variables unchanged, so steps of different workers commute.  The behaviours
\* below are the interleavings in which a worker takes its next item while the
\* other one is between two items, waiting in get().
B2AGet ==
    /\ b_pc = "get"
    /\ b_dequeued < MaxDeliveries
    /\ a_pc = "get"
    /\ \E item \in B2AItems :
           \E exists \in [DOMAIN item.attachments -> BOOLEAN],
              converted \in [DOMAIN item.attachments -> BOOLEAN] :
               /\ process_telegram_send_queue_get(item, exists, converted)
               /\ UNCHANGED <<progVars, histVars, listenerVars, a2bVars, handlerVars, mdVars, createVars>>

B2ASend ==
    \E ok \in BOOLEAN :
        /\ process_telegram_send_queue_send(ok)
        /\ UNCHANGED <<progVars, histVars, listenerVars, a2bVars, handlerVars, mdVars, createVars>>

B2AReceipt ==
    \E outcome \in {"ok", "status", "error"} :
        /\ process_telegram_send_queue_receipt(outcome)
        /\ UNCHANGED <<progVars, histVars, listenerVars, a2bVars, handlerVars, mdVars, createVars>>

B2ASleep ==
    /\ process_telegram_send_queue_sleep
    /\ UNCHANGED <<progVars, histVars, listenerVars, a2bVars, handlerVars, mdVars, createVars>>

A2BGet ==
    /\ a_pc = "get"
    /\ a_dequeued < MaxDeliveries
    /\ b_pc = "get"
    /\ \E item \in A2BItems :
           /\ process_queue_get(item)
           /\ UNCHANGED <<progVars, histVars, listenerVars, b2aVars, handlerVars, mdVars, createVars>>

A2BMarked ==
    \E ok \in BOOLEAN :
        /\ process_album_marked(ok)
        /\ UNCHANGED <<progVars, histVars, listenerVars, b2aVars, handlerVars, mdVars, createVars>>

A2BDownloaded ==
    \E ok \in BOOLEAN, converted \in BOOLEAN :
        /\ process_queue_downloaded(ok, converted)
        /\ UNCHANGED <<progVars, histVars, listenerVars, b2aVars, handlerVars, mdVars, createVars>>

A2BSender ==
    \E ok \in BOOLEAN :
        /\ process_queue_sender(ok)
        /\ UNCHANGED <<progVars, histVars, listenerVars, b2aVars, handlerVars, mdVars, createVars>>

A2BPosted ==
    /\ a_pc = "post"
    /\ \E ok \in BOOLEAN, fail_at \in {0} \cup FailPoints(cleanup_paths, a_files) :
           /\ process_queue_posted(ok, fail_at)
           /\ UNCHANGED <<progVars, histVars, listenerVars, b2aVars, handlerVars, mdVars, createVars>>

A2BSleep ==
    /\ process_queue_sleep
    /\ UNCHANGED <<progVars, histVars, listenerVars, b2aVars, handlerVars, mdVars, createVars>>

NextDelivery ==
    \/ B2AGet
    \/ B2ASend
    \/ B2AReceipt
    \/ B2ASleep
    \/ A2BGet
    \/ A2BMarked
    \/ A2BDownloaded
    \/ A2BSender
    \/ A2BPosted
    \/ A2BSleep

SpecDelivery == InitDelivery /\ [][NextDelivery]_vars

\* ------------------------- the router, the provisioning worker and process_queue
\* what an item of to_send_queue carries besides its conversation: ('message', msg)
\* without a medium or with a photo, or ('album', event) with one photo
PipedContents ==
    [type : {"message"}, is_group : BOOLEAN, media : {<<"none">>, <<"photo">>}]
    \cup [type : {"album"}, is_group : {FALSE}, media : {<<"photo">>}]

PRoute ==
    /\ nextItem <= MaxPiped
    /\ Route

\* item_type, item = await to_send_queue.get(): the worker takes the head of the queue
PGet ==
    /\ a_pc = "get"
    /\ to_send_queue # <<>>
    /\ \E content \in PipedContents :
           process_queue_get([type |-> content.type, chat |-> Head(to_send_queue).chat,
                              is_group |-> content.is_group, media |-> content.media])
    /\ to_send_queue' = Tail(to_send_queue)
    /\ UNCHANGED <<chats, channels, signal_to_telegram, group_creation_queue,
                   telegram_send_queue, pending_messages, groups_being_created,
                   prov_pc, prov_req>>
    /\ UNCHANGED <<histVars, listenerVars, b2aVars, handlerVars, mdVars, createVars>>

NextPipeline ==
    \/ PRoute
    \/ ProvGet
    \/ ProvSuccess
    \/ ProvSaveRaises
    \/ ProvFailure
    \/ ProvCreateRaises
    \/ ProvSleep
    \/ PGet
    \/ A2BMarked
    \/ A2BDownloaded
    \/ A2BSender
    \/ A2BPosted
    \/ A2BSleep

SpecPipeline == Init /\ [][NextPipeline]_vars

\* ------------------------------------------------------------------ properties
ItemsOf(q) == {q[i] : i \in DOMAIN q}

\* provisioning requests for chat_id that wait in the queue or are being processed
Outstanding(chat_id) ==
    Cardinality({i \in DOMAIN group_creation_queue : group_creation_queue[i][1] = chat_id})
    + (IF prov_pc = "create" /\ prov_req[1] = chat_id THEN 1 ELSE 0)

\* this step is one route() call; its arguments are last'.chat and last'.flag
RouteStep == nextItem' = nextItem + 1

\* this step ends the worker's processing of the request prov_req; last'.op is how
ResolveStep == prov_pc = "create" /\ prov_pc' = "sleep"

\* C1: at any time each conversation id has at most one provisioning request
\* outstanding, counting the requests waiting in group_creation_queue and the one
\* the worker is processing.
C1_AtMostOneRequest == \A c \in ChatIds : Outstanding(c) <= 1

\* C1 witness: the worker processes a request for a conversation that got two
\* route() calls, while another conversation's request waits in the queue.
C1_Witness ==
    /\ prov_pc = "create"
    /\ prov_req[1] \in DOMAIN pending_messages
    /\ Len(pending_messages[prov_req[1]]) >= 2
    /\ group_creation_queue # <<>>

\* C2: while a provisioning round of an unmapped conversation is open (n >= 1
\* route() calls since it started, not yet resolved), PendingBuffer[id] holds exactly
\* those n items in call order, none of them is on the delivery queue, and exactly
\* one request (id, isChannel) is outstanding, with the isChannel of the first call.
C2_BufferHoldsExactlyTheCalls ==
    \A c \in ChatIds :
        round[c] # <<>> =>
            /\ c \in DOMAIN pending_messages
            /\ pending_messages[c] = [i \in DOMAIN round[c] |-> round[c][i][1]]
            /\ \A i \in DOMAIN round[c] : round[c][i][1] \notin ItemsOf(to_send_queue)
            /\ Outstanding(c) = 1
            /\ \/ <<c, round[c][1][2]>> \in ItemsOf(group_creation_queue)
               \/ prov_pc = "create" /\ prov_req = <<c, round[c][1][2]>>

\* C3: no message loss.  When a provisioning succeeds, every item routed for the
\* conversation since the miss that started it is on the delivery queue; and an
\* item is put on the delivery queue only when its conversation has a mapping.
C3_NoMessageLoss ==
    [][/\ (ResolveStep /\ last'.op = "success") =>
              \A i \in DOMAIN round[prov_req[1]] :
                  round[prov_req[1]][i][1] \in ItemsOf(to_send_queue')
       /\ \A it \in ItemsOf(to_send_queue') \ ItemsOf(to_send_queue) : Mapped(it.chat)'
      ]_vars

\* C3 witness: a provisioning has just succeeded and two items of its conversation,
\* routed while it was unmapped, are on the delivery queue.
C3_Witness ==
    /\ last.op = "success"
    /\ prov_pc = "sleep"
    /\ Cardinality({i \in DOMAIN to_send_queue : to_send_queue[i].chat = last.chat}) >= 2

\* C4: a successful resolution appends the buffered items to the delivery queue:
\* what was on the queue stays in front, and the added part is exactly the buffered
\* items, each once, in arrival order (items are numbered in arrival order).
C4_ReplayInOrder ==
    [][(ResolveStep /\ last'.op = "success" /\ prov_req[1] \in DOMAIN pending_messages) =>
          LET old == Len(to_send_queue)
              buf == pending_messages[prov_req[1]]
              new == SubSeq(to_send_queue', old + 1, Len(to_send_queue'))
          IN  /\ Len(to_send_queue') = old + Len(buf)
              /\ SubSeq(to_send_queue', 1, old) = to_send_queue
              /\ ItemsOf(new) = ItemsOf(buf)
              /\ \A i, j \in DOMAIN new : i < j => new[i].id < new[j].id
      ]_vars

\* C4 witness: after a success the queue holds an item of another conversation
\* followed by two replayed items.
C4_Witness ==
    /\ last.op = "success"
    /\ prov_pc = "sleep"
    /\ Len(to_send_queue) >= 3
    /\ to_send_queue[1].chat # last.chat
    /\ to_send_queue[2].chat = last.chat
    /\ to_send_queue[3].chat = last.chat

\* C5: after a failed resolution (create_signal_group returned None) the items that
\* were buffered are never on the delivery queue, and the failed resolution adds no
\* mapping to the Directory.
C5_FailureDropsBuffer ==
    [][/\ ItemsOf(to_send_queue') \cap discarded' = {}
       /\ (ResolveStep /\ last'.op = "failure") => (chats' = chats /\ channels' = channels)
      ]_vars

\* C5 witness: a provisioning has just failed with two items buffered.
C5_Witness ==
    /\ last.op = "failure"
    /\ prov_pc = "sleep"
    /\ Cardinality({it \in discarded : it.chat = last.chat}) >= 2

\* C6: whenever the worker finishes a request, by any path, PendingBuffer has no
\* entry for the request's conversation.
C6_BufferGoneWhenFinished ==
    [][ResolveStep => prov_req[1] \notin DOMAIN pending_messages']_vars

\* C7: when a request finishes, by any path, its conversation leaves
\* InFlightProvisioning; and a route() call for an unmapped conversation with no
\* provisioning round open (none yet, or the last one finished) enqueues a new
\* request and puts the conversation in flight.
C7_FinishedThenRetriggered ==
    [][/\ ResolveStep => prov_req[1] \notin groups_being_created'
       /\ (RouteStep /\ ~Mapped(last'.chat) /\ round[last'.chat] = <<>>) =>
              /\ group_creation_queue' = Append(group_creation_queue, <<last'.chat, last'.flag>>)
              /\ last'.chat \in groups_being_created'
      ]_vars

\* C7 witness: a conversation whose earlier provisioning failed was routed again
\* and has a new request waiting.
C7_Witness ==
    /\ last.op = "route"
    /\ \E it \in discarded : it.chat = last.chat
    /\ Len(round[last.chat]) = 1
    /\ <<last.chat, last.flag>> \in ItemsOf(group_creation_queue)

\* C8: at every suspension point no conversation is both mapped and in flight; and
\* when its provisioning has resolved, the conversation is not in flight and either
\* has a mapping or has no buffer entry.
C8_MappedXorInFlight ==
    [][/\ \A c \in ChatIds : ~(Mapped(c)' /\ c \in groups_being_created')
       /\ \A c \in ChatIds :
              (ResolveStep /\ c = prov_req[1]) =>
                  /\ c \notin groups_being_created'
                  /\ Mapped(c)' \/ c \notin DOMAIN pending_messages'
      ]_vars

\* what pending_messages must be after item was appended to chat_id's entry
BufferAfterAppend(chat_id, item) ==
    /\ DOMAIN pending_messages' = DOMAIN pending_messages \cup {chat_id}
    /\ pending_messages'[chat_id] =
           (IF chat_id \in DOMAIN pending_messages THEN pending_messages[chat_id] ELSE <<>>)
           \o <<item>>
    /\ \A k \in DOMAIN pending_messages \ {chat_id} : pending_messages'[k] = pending_messages[k]

\* C9: a route() call has exactly one of three effects.  Mapped: the item is
\* appended to the delivery queue.  Unmapped and in flight: the item is appended to
\* PendingBuffer[id].  Unmapped and not in flight: id joins InFlightProvisioning, the
\* item is appended to PendingBuffer[id] and one request (id, isChannel) is enqueued.
\* Everything else (Directory, reverse index, other buffer entries, the other
\* queues, the worker) is unchanged, and the call is one step.
C9_RouteEffects ==
    [][RouteStep =>
          LET c == last'.chat
              it == [chat |-> last'.chat, id |-> nextItem]
          IN  /\ UNCHANGED <<chats, channels, signal_to_telegram, telegram_send_queue,
                             prov_pc, prov_req>>
              /\ IF Mapped(c)
                 THEN /\ to_send_queue' = Append(to_send_queue, it)
                      /\ UNCHANGED <<pending_messages, groups_being_created,
                                     group_creation_queue>>
                 ELSE IF c \in groups_being_created
                 THEN /\ BufferAfterAppend(c, it)
                      /\ UNCHANGED <<to_send_queue, groups_being_created,
                                     group_creation_queue>>
                 ELSE /\ groups_being_created' = groups_being_created \cup {c}
                      /\ BufferAfterAppend(c, it)
                      /\ group_creation_queue' =
                             Append(group_creation_queue, <<c, last'.flag>>)
                      /\ UNCHANGED to_send_queue
      ]_vars

\* C9 witness: a route() call has just buffered a second item for a conversation in
\* flight while the delivery queue holds an item of a mapped conversation.
C9_Witness ==
    /\ last.op = "route"
    /\ last.chat \in groups_being_created
    /\ Len(pending_messages[last.chat]) >= 2
    /\ to_send_queue # <<>>

\* C10: the Directory only grows: a conversation that has a mapping keeps it, with
\* the same group id, whatever operation runs.
C10_DirectoryOnlyGrows ==
    [][\A c \in ChatIds :
          Mapped(c) => get_signal_group_id(c)' = get_signal_group_id(c)]_vars

\* C10 witness: a provisioning has just succeeded and two conversations are mapped.
C10_Witness ==
    /\ last.op = "success"
    /\ Cardinality({c \in ChatIds : Mapped(c)}) >= 2

\* C11: as long as neither stop() nor a cancellation has happened, the listener is
\* in its loop, every connection attempt but the one in progress has ended (N ended
\* attempts, N + 1 attempts made), and exactly one backoff wait was begun between two
\* consecutive attempts: after N failures in a row the listener is at attempt N + 1.
C11_ReconnectCount ==
    (~l_stop /\ ~l_cancelled) =>
        /\ l_pc \in {"init", "connecting", "streaming", "backoff"}
        /\ l_pc = "init" => l_attempts = 0 /\ l_backoffs = 0
        /\ l_pc = "connecting" =>
               l_attempts = l_fails + l_oks + 1 /\ l_backoffs = l_attempts - 1
        /\ l_pc = "streaming" =>
               l_attempts = l_fails + l_oks /\ l_backoffs = l_attempts - 1
        /\ l_pc = "backoff" =>
               l_attempts = l_fails + l_oks /\ l_backoffs = l_attempts

\* C11 witness: two connection failures in a row, the third attempt is in progress.
C11_Witness ==
    /\ l_pc = "connecting"
    /\ l_fails = 2
    /\ l_oks = 0
    /\ l_attempts = 3
    /\ ~l_stop
    /\ ~l_cancelled

\* C12: from the backoff wait, from Connecting and from Streaming, once stop() has
\* been called the listener eventually is Stopped: start() has returned and the
\* session is closed (unless the task is cancelled on the way).
C12_StopReachesStopped ==
    \A p \in {"backoff", "connecting", "streaming"} :
        (l_pc = p /\ l_stop /\ ~running) ~> (l_pc = "stopped" \/ l_cancelled)

\* C13: whenever start() is over, by returning or by cancellation, the session it
\* opened is closed.
C13_SessionClosedOnExit ==
    l_pc \in {"stopped", "cancelled"} => session # "open"

\* the files the Telegram -> Signal worker recorded for its item
A2BRecorded == (({a_path, converted_path} \cup Range(attachments)) \ {NoPath})

\* the files the Signal -> Telegram worker recorded for its item
B2ARecorded == Range(signal_attachment_paths) \cup Range(converted_voice_paths)

\* C14: when a delivery worker has finished an item and goes on to the next one,
\* none of the files it recorded for the item (downloaded, converted) exists any more,
\* whether the send succeeded or raised; in both pipelines.
C14_TemporaryFilesRemoved ==
    /\ a_pc = "sleep" => A2BRecorded \cap a_files = {}
    /\ b_pc = "sleep" => B2ARecorded \cap b_files = {}

\* C15: the sends made for one Signal -> Telegram item are, in this order: one voice
\* message per voice note, one video note per video, then for the generic attachments
\* one album (more than one) or one file (exactly one) with the text as caption, or,
\* with no generic attachment, the text alone if there is text; nothing else is sent,
\* and when no send raises all of them are sent.
C15_SendOrder ==
    b_item # NoItem =>
        LET nv == Len(voice_note_paths)
            nd == Len(video_note_paths)
            tail == IF attachment_paths # <<>> \/ b_item.message THEN 1 ELSE 0
        IN  /\ Len(b_sends) <= nv + nd + tail
            /\ \A k \in DOMAIN b_sends :
                   /\ k <= nv =>
                          b_sends[k] = Send("voice_note", <<voice_note_paths[k]>>, FALSE)
                   /\ (nv < k /\ k <= nv + nd) =>
                          b_sends[k] = Send("video_note", <<video_note_paths[k - nv]>>, FALSE)
                   /\ (k = nv + nd + 1 /\ Len(attachment_paths) > 1) =>
                          b_sends[k] = Send("album", attachment_paths, b_item.message)
                   /\ (k = nv + nd + 1 /\ Len(attachment_paths) = 1) =>
                          b_sends[k] = Send("file", <<attachment_paths[1]>>, b_item.message)
                   /\ (k = nv + nd + 1 /\ attachment_paths = <<>>) =>
                          b_sends[k] = Send("message", <<>>, TRUE)
            /\ (b_pc \in {"receipt", "sleep", "dead"} /\ ~b_raised) =>
                   Len(b_sends) = nv + nd + tail

\* C15 witness: an item with a voice note, a video and text is over: the voice note
\* went first, the video note second, the text last.
C15_Witness ==
    /\ b_pc = "sleep"
    /\ Len(b_sends) = 3
    /\ b_sends[1].kind = "voice_note"
    /\ b_sends[2].kind = "video_note"
    /\ b_sends[3].kind = "message"

\* C16: a read receipt is issued for an item only after a successful send of that
\* item: never after a send raised, never when nothing was sent.
C16_ReceiptOnlyAfterSend ==
    (b_pc = "receipt" \/ b_receipts # <<>>) => (~b_raised /\ b_sends # <<>>)

\* C17: when the read-receipt call fails (status or exception) it is made once, the
\* sends of the item stand, its recorded files are removed, the item is acknowledged
\* and the worker goes on to the next item.
C17_ReceiptFailureHarmless ==
    [][(b_pc = "receipt" /\ Len(b_receipts') = Len(b_receipts) + 1
        /\ b_receipts'[Len(b_receipts')] # "ok") =>
          /\ Len(b_receipts') = 1
          /\ b_sends' = b_sends
          /\ B2ARecorded' \cap b_files' = {}
          /\ b_acked' = b_acked + 1
          /\ b_pc' = "sleep"
      ]_vars

\* C18: every attachment of the item whose file exists is in exactly one class: an
\* id ending in .m4a is a voice note, and its file was handed to the converter; an id
\* ending in .mp4 is a video note if send_video_as_note, else a generic file; any
\* other id is a generic file.  An attachment without id or file is in no class.
C18_Classification ==
    b_item # NoItem =>
        \A i \in DOMAIN b_item.attachments :
            LET id == b_item.attachments[i]
                fp == file_path(i, id)
                found == id # NoId /\ fp \in Range(signal_attachment_paths)
                voice == fp \in Range(voice_note_paths)
                         \/ (id # NoId /\ ogg_path(i, id) \in Range(voice_note_paths))
                video == fp \in Range(video_note_paths)
                generic == fp \in Range(attachment_paths)
            IN  IF ~found THEN ~voice /\ ~video /\ ~generic
                ELSE IF EndsWith(id, ".m4a")
                THEN voice /\ ~video /\ ~generic /\ fp \in Range(b_conversions)
                ELSE IF EndsWith(id, ".mp4") /\ send_video_as_note
                THEN video /\ ~voice /\ ~generic
                ELSE generic /\ ~voice /\ ~video

\* C18 witness: with send_video_as_note off, an item with a voice note and an .mp4:
\* the .mp4 is a generic file.
C18_Witness ==
    /\ ~send_video_as_note
    /\ b_item # NoItem
    /\ Len(voice_note_paths) = 1
    /\ Len(attachment_paths) = 1
    /\ EndsWith(attachment_paths[1][3], ".mp4")

\* C19: a voice conversion that fails does not fail the item.  Signal -> Telegram:
\* the original file takes the voice note's place among the voice notes, and when no
\* send raises every voice note is sent.  Telegram -> Signal: the downloaded file is
\* the attachment, the item goes on to the POST, and the POST carries it.
C19_ConversionFallback ==
    /\ b_item # NoItem =>
           LET voices == {i \in DOMAIN b_item.attachments :
                             /\ b_item.attachments[i] # NoId
                             /\ EndsWith(b_item.attachments[i], ".m4a")
                             /\ file_path(i, b_item.attachments[i])
                                    \in Range(signal_attachment_paths)}
           IN  /\ Len(voice_note_paths) = Cardinality(voices)
               /\ \A i \in voices :
                      LET nth == Cardinality({j \in voices : j <= i})
                          id == b_item.attachments[i]
                      IN  /\ voice_note_paths[nth] =
                                 IF ogg_path(i, id) \in Range(converted_voice_paths)
                                 THEN ogg_path(i, id) ELSE file_path(i, id)
                          /\ (b_pc \in {"receipt", "sleep"} /\ ~b_raised) =>
                                 Send("voice_note", <<voice_note_paths[nth]>>, FALSE)
                                     \in Range(b_sends)
    /\ (a_item # NoItem /\ a_item.type = "message" /\ a_item.media[1] = "voice"
        /\ a_path # NoPath /\ converted_path = NoPath) =>
           /\ attachments = <<a_path>>
           /\ a_pc \in {"sender", "post", "sleep"}
           /\ (a_pc = "sleep" /\ ~a_raised) => a_posts = <<(<<a_path>>)>>

\* C19 witness: a Signal item whose voice note could not be converted is over: the
\* .m4a itself went out as the voice note, and the file after it was sent as well.
C19_Witness ==
    /\ b_pc = "sleep"
    /\ converted_voice_paths = <<>>
    /\ Len(b_sends) = 2
    /\ b_sends[1].kind = "voice_note"
    /\ EndsWith(b_sends[1].files[1][3], ".m4a")
    /\ b_sends[2].kind = "file"

\* C20: no error raised while an item is processed ends a delivery worker, and each
\* dequeued item is acknowledged exactly once: when the worker is between two items
\* its task_done() calls equal its get() calls.
C20_WorkersSurvive ==
    /\ b_pc # "dead"
    /\ b_pc \in {"sleep", "get"} => b_acked = b_dequeued
    /\ a_pc \in {"sleep", "get"} => a_acked = a_dequeued

\* C21: the listener hands an event to handle_signal_message only if it is a group
\* message (dataMessage with groupInfo and groupId): a step that takes any other line
\* changes no queue, no buffer and no mapping table.
C21_OnlyGroupMessagesHandled ==
    [][(l_tick' # l_tick /\ l_line'.kind # "group") => UNCHANGED progVars]_vars

\* C21 witness: a direct message was taken and dropped while a group message accepted
\* before it waits in telegram_send_queue, and the listener is still streaming.
C21_Witness ==
    /\ l_line # NoLine
    /\ l_line.kind = "direct"
    /\ l_pc = "streaming"
    /\ telegram_send_queue # <<>>

\* C22: a payload that cannot be decoded is skipped and a line without the data:
\* prefix is ignored: the listener, if not stopped, stays in Streaming on the same
\* connection, and nothing is enqueued.
C22_MalformedSkipped ==
    [][(l_tick' # l_tick /\ running
        /\ l_line'.kind \in {"undecodable", "malformed", "noprefix"})
       => (l_pc' = "streaming" /\ UNCHANGED progVars)]_vars

\* C23: an event of a channel while ENABLE_CHANNELS is off is dropped: the handler
\* step that receives it, and the one that follows its mark_read(), put nothing on
\* to_send_queue, buffer nothing and start no provisioning; and a Signal message of
\* a group that no table maps is not put on telegram_send_queue.
C23_DroppedEventsLeaveNoTrace ==
    [][/\ (last' # last /\ last'.op \in {"message", "album", "mark_read"}
           /\ last'.flag /\ ~enable_channels)
          => UNCHANGED <<to_send_queue, telegram_send_queue, pending_messages,
                         groups_being_created, group_creation_queue, prov_req,
                         chats, channels>>
       /\ (last' # last /\ last'.op = "signal"
           /\ get_telegram_chat_id(last'.chat) = NoLookup)
          => UNCHANGED telegram_send_queue]_vars

\* C23 witness: with channels disabled, the handler of a channel message has come
\* back from mark_read() and is over, while the item of an ordinary conversation
\* received before it waits in the buffer.
C23_Witness ==
    /\ ~enable_channels
    /\ last.op = "mark_read"
    /\ last.flag
    /\ h_pending = {}
    /\ pending_messages # <<>>

\* ---- the converter: what the claims speak of, stated without the converter's
\* ---- own definitions
\* UTF-16 code units of a text, character by character
RECURSIVE Utf16Units(_)
Utf16Units(t) ==
    IF t = <<>> THEN 0 ELSE (IF Head(t) = Astral THEN 2 ELSE 1) + Utf16Units(Tail(t))

\* literal text: nowhere in it stands the sequence that closes a marker ("**", "__",
\* "~~", "||", a backquote, or "](" of the link form)
LiteralText(t) ==
    \A i \in DOMAIN t, q \in DOMAIN Patterns : ~StartsAt(t, i, Patterns[q].close)

\* text in which no marker can begin: no character of it is the first of a marker
PlainText(t) ==
    \A i \in DOMAIN t, q \in DOMAIN Patterns : t[i] # Patterns[q].open[1]

\* t is one span: the marker of pattern q (not the link form), a non-empty inner
\* text, and the marker again, which stands nowhere earlier after the first
\* character of the inner text
Wraps(t, q) ==
    LET m == Patterns[q].open
    IN  /\ ~Patterns[q].link
        /\ Len(t) >= 2 * Len(m) + 1
        /\ StartsAt(t, 1, m)
        /\ StartsAt(t, Len(t) - Len(m) + 1, m)
        /\ \A j \in (Len(m) + 2)..(Len(t) - Len(m)) : ~StartsAt(t, j, m)

InnerOf(t, q) == SubSeq(t, Len(Patterns[q].open) + 1, Len(t) - Len(Patterns[q].open))

\* C24: a text that holds only literal text comes back unchanged with no style; the
\* empty text gives ("", []).
C24_LiteralTextUnchanged ==
    (md_result # NoResult /\ LiteralText(md_text)) =>
        md_result = [text |-> md_text, styles |-> <<>>]

\* C24 witness: a literal text with a lone asterisk and a lone bracket was converted.
C24_Witness ==
    /\ md_text = <<"x", "*", "[">>
    /\ md_result # NoResult
    /\ md_result.text = md_text

\* C25: for a span that follows plain text, the range of the span is recorded at the
\* UTF-16 offset at which the converted inner text begins in the output, its length
\* is the UTF-16 length of the converted inner text, and the ranges nested in it
\* follow it, each at that offset plus its own offset; "**__x__**" gives "x" with
\* BOLD 0:1 and then ITALIC 0:1.
C25_NestedRanges ==
    md_result # NoResult =>
        /\ md_text = <<"*", "*", "_", "_", "x", "_", "_", "*", "*">> =>
               md_result = [text |-> <<"x">>,
                            styles |-> <<Style(0, 1, "BOLD"), Style(0, 1, "ITALIC")>>]
        /\ \A n \in 0..Len(md_text), q \in DOMAIN Patterns :
               LET pre == SubSeq(md_text, 1, n)
                   span == SubSeq(md_text, n + 1, Len(md_text))
               IN  (PlainText(pre) /\ Wraps(span, q)) =>
                       LET inner == convert_telegram_markdown(InnerOf(span, q))
                       IN  /\ md_result.text = pre \o inner.text
                           /\ Len(md_result.styles) = 1 + Len(inner.styles)
                           /\ md_result.styles[1] =
                                  Style(Utf16Units(pre), Utf16Units(inner.text),
                                        Patterns[q].style)
                           /\ \A i \in DOMAIN inner.styles :
                                  md_result.styles[i + 1] =
                                      Style(Utf16Units(pre) + inner.styles[i].start,
                                            inner.styles[i].length, inner.styles[i].style)

\* C25 witness: "**__x__**" was converted and gave two ranges.
C25_Witness ==
    /\ md_text = <<"*", "*", "_", "_", "x", "_", "_", "*", "*">>
    /\ md_result # NoResult
    /\ Len(md_result.styles) = 2

\* C26: offsets and lengths count UTF-16 code units: in front of a span, a
\* character outside the Basic Multilingual Plane moves the start of the range by 2
\* and any other character by 1, and such a character inside the span counts 2 in
\* the length.
C26_Utf16Offsets ==
    md_result # NoResult =>
        \A n \in 0..Len(md_text), q \in DOMAIN Patterns :
            LET pre == SubSeq(md_text, 1, n)
                span == SubSeq(md_text, n + 1, Len(md_text))
            IN  (PlainText(pre) /\ Wraps(span, q) /\ PlainText(InnerOf(span, q))) =>
                    /\ md_result.styles[1].start =
                           Len(pre) + Cardinality({i \in DOMAIN pre : pre[i] = Astral})
                    /\ md_result.styles[1].length =
                           Len(InnerOf(span, q))
                           + Cardinality({i \in DOMAIN InnerOf(span, q) :
                                             InnerOf(span, q)[i] = Astral})

\* C26 witness: a bold span after one character outside the Basic Multilingual Plane
\* was converted: its range starts at 2.
C26_Witness ==
    /\ md_text = <<Astral, "*", "*", "x", "*", "*">>
    /\ md_result # NoResult
    /\ md_result.styles = <<Style(2, 1, "BOLD")>>

\* C27 as stated: a marker pair with nothing in between, such as "****", makes the
\* converter emit a range of length zero.
C27_ZeroLengthRangeEmitted ==
    (md_result # NoResult
     /\ \E q \in DOMAIN Patterns :
            ~Patterns[q].link /\ md_text = Patterns[q].open \o Patterns[q].close)
    => \E i \in DOMAIN md_result.styles : md_result.styles[i].length = 0

\* C27 amended: a marker pair with nothing in between, such as "****", is no span:
\* the text comes back unchanged with no range, and no range the converter emits
\* has length zero.
C27_NoZeroLengthRange ==
    md_result # NoResult =>
        /\ \A i \in DOMAIN md_result.styles : md_result.styles[i].length >= 1
        /\ \A q \in DOMAIN Patterns :
               (~Patterns[q].link /\ md_text = Patterns[q].open \o Patterns[q].close) =>
                   md_result = [text |-> md_text, styles |-> <<>>]

\* C27 witness: "****" was converted and came back as it was.
C27_Witness ==
    /\ md_text = <<"*", "*", "*", "*">>
    /\ md_result = [text |-> <<"*", "*", "*", "*">>, styles |-> <<>>]

\* C28: the mapping, the re-submission of the buffered items and the removal of the
\* buffer entry come in one step, so at no suspension point, and so for no route()
\* call, is a conversation mapped while PendingBuffer still holds items for it.
C28_MappedNeverBuffered ==
    \A c \in ChatIds : ~(Mapped(c) /\ c \in DOMAIN pending_messages)

\* the reverse index is the inverse of the two forward tables
ReverseIsInverse ==
    /\ \A i \in DOMAIN chats : get_telegram_chat_id(chats[i][2]) = <<chats[i][1], FALSE>>
    /\ \A i \in DOMAIN channels :
           get_telegram_chat_id(channels[i][2]) = <<channels[i][1], TRUE>>
    /\ \A g \in GroupIds : get_telegram_chat_id(g) # NoLookup => g \in UsedGroups

\* C29: the reverse index is exactly the inverse of the two forward tables whenever
\* an update of the mapping store is over, and a group is reverse-resolvable as soon
\* as its forward mapping is visible: at every suspension point each forward entry
\* has its reverse entry and the reverse index has no other entry.
C29_ReverseIndexIsInverse == ReverseIsInverse

AppendedAt == (Len(to_send_queue) + 1)..Len(to_send_queue')

\* C31: per-conversation FIFO.  Items are numbered in the order of the route() calls.
\* Whatever step puts an item on the delivery queue (a route() call for a mapped
\* conversation, or the replay of the buffer), the item was routed after every item
\* of its conversation that was put on the queue before it, in an earlier step or
\* earlier in the same step; and the queue only loses its head.
C31_PerConversationFifo ==
    [][/\ \A i \in AppendedAt :
              /\ \A p \in placed :
                     p.chat = to_send_queue'[i].chat => p.id < to_send_queue'[i].id
              /\ \A j \in AppendedAt :
                     (j < i /\ to_send_queue'[j].chat = to_send_queue'[i].chat) =>
                         to_send_queue'[j].id < to_send_queue'[i].id
       /\ IF Len(to_send_queue') < Len(to_send_queue)
          THEN to_send_queue' = Tail(to_send_queue)
          ELSE SubSeq(to_send_queue', 1, Len(to_send_queue)) = to_send_queue
      ]_vars

\* C31 witness: the queue holds three items of one conversation: the first was
\* buffered while the group was created (the Directory starts empty), the last was
\* routed after the mapping existed.
C31_Witness ==
    /\ last.op = "route"
    /\ Len(to_send_queue) = 3
    /\ \A i \in DOMAIN to_send_queue : to_send_queue[i].chat = last.chat
    /\ to_send_queue[3].id = last.n

\* C32: no duplication.  An item that a step puts on the delivery queue has never
\* been put there before, a step puts no item there twice, and no item is at once in
\* a buffer entry and on the delivery queue.
C32_NoDuplication ==
    [][/\ \A i \in AppendedAt :
              /\ to_send_queue'[i] \notin placed
              /\ \A j \in AppendedAt : j # i => to_send_queue'[j] # to_send_queue'[i]
       /\ (pending_messages' # pending_messages \/ to_send_queue' # to_send_queue) =>
              \A c \in DOMAIN pending_messages' :
                  ItemsOf(pending_messages'[c]) \cap ItemsOf(to_send_queue') = {}
      ]_vars

\* C32 witness: a provisioning has just succeeded with two items buffered, both are
\* on the delivery queue, and the buffer entry is gone.
C32_Witness ==
    /\ last.op = "success"
    /\ prov_pc = "sleep"
    /\ last.chat \notin DOMAIN pending_messages
    /\ Cardinality({i \in DOMAIN to_send_queue : to_send_queue[i].chat = last.chat}) = 2
    /\ placed = ItemsOf(to_send_queue)

\* C33: at every suspension point PendingBuffer has an entry for a conversation
\* exactly when the conversation is in InFlightProvisioning, and every entry is a
\* non-empty sequence.
C33_BufferIffInFlight ==
    /\ \A c \in ChatIds : c \in DOMAIN pending_messages <=> c \in groups_being_created
    /\ \A c \in DOMAIN pending_messages : pending_messages[c] # <<>>

\* this step is a route() call that enqueues a provisioning request
RequestStep == RouteStep /\ Len(group_creation_queue') > Len(group_creation_queue)

\* C35: at most one group is created and mapped per conversation.  A provisioning
\* succeeds only for a conversation that has no mapping, the success gives it one,
\* a mapping once there stays, and a route() call enqueues a provisioning request
\* only for a conversation that has no mapping: so after a success for an id no
\* request for that id is enqueued again and no second group is mapped to it.
C35_OneGroupPerConversation ==
    [][/\ (ResolveStep /\ last'.op = "success") =>
              \A c \in ChatIds : c = prov_req[1] =>
                  /\ ~Mapped(c)
                  /\ Mapped(c)'
                  /\ get_signal_group_id(c)' = last'.n
       /\ (chats' # chats \/ channels' # channels) =>
              \A c \in ChatIds : Mapped(c) => get_signal_group_id(c)' = get_signal_group_id(c)
       /\ RequestStep => ~Mapped(last'.chat)
      ]_vars

\* C35 witness: a conversation whose provisioning succeeded has since been routed
\* again, as a channel this time, and no request is outstanding for it.
C35_Witness ==
    /\ last.op = "route"
    /\ last.flag
    /\ Get(chats, last.chat) # NoGroup
    /\ Outstanding(last.chat) = 0
    /\ last.chat \notin groups_being_created

\* C34: every item the Telegram -> Signal worker takes belongs to a conversation
\* that has a mapping, from the moment it is put on to_send_queue to the end of its
\* processing, so the worker never leaves an item through the "No Signal group
\* found" branch (the only way to end an item without a request and without an
\* exception).
C34_DequeuedItemsAreMapped ==
    /\ \A i \in DOMAIN to_send_queue : Mapped(to_send_queue[i].chat)
    /\ a_pc # "get" => Mapped(a_item.chat)
    /\ ~(a_pc = "sleep" /\ ~a_raised /\ a_posts = <<>>)

\* C34 witness: the worker has downloaded the photo of an item whose conversation
\* was provisioned in this behaviour, has found its group and is sending.
C34_Witness ==
    /\ a_pc = "post"
    /\ a_files # {}
    /\ get_signal_group_id(a_item.chat) \in GroupIds
    /\ a_item.chat \notin groups_being_created

\* C36: while Streaming, a step that ends the stream without cancelling the task (the
\* server closes the stream, or a line makes event handling or on_message raise)
\* does not end the listener: start() goes to its backoff sleep, or, if stop() was
\* called, at most to the closing of its session; and when the sleep is over and
\* stop() was not called, the next connection attempt begins.
C36_ListenerSurvives ==
    [][/\ (l_pc = "streaming" /\ l_pc' # "streaming" /\ l_cancelled' = l_cancelled) =>
              /\ l_pc' \in {"backoff", "closing"}
              /\ ~l_stop => l_pc' = "backoff"
              /\ session' = "open"
       /\ (l_pc = "backoff" /\ l_pc' # "backoff" /\ l_cancelled' = l_cancelled) =>
              /\ l_pc' \in {"connecting", "closing"}
              /\ ~l_stop => (l_pc' = "connecting" /\ l_attempts' = l_attempts + 1)
      ]_vars

\* C36 witness: on_message raised for the latest line, the listener slept and is
\* connecting again.
C36_Witness ==
    /\ l_line # NoLine
    /\ l_line.kind = "raising"
    /\ l_pc = "connecting"
    /\ l_attempts >= 2
    /\ ~l_stop

\* C37: once stop() has been called, the listener begins no connection attempt.
C37_NoConnectionAfterStop ==
    [][l_stop => l_attempts' = l_attempts]_vars

\* what the Telegram -> Signal side and provisioning keep: the Directory and its
\* reverse index, InFlightProvisioning, PendingBuffer, the two queues, the worker
ProvisioningState ==
    <<chats, channels, signal_to_telegram, to_send_queue, group_creation_queue,
      pending_messages, groups_being_created, prov_pc, prov_req>>

\* C38: the Signal -> Telegram direction never provisions.  A call of
\* handle_signal_message and a step of the Signal -> Telegram worker taking an item
\* leave the Directory, InFlightProvisioning, PendingBuffer, the provisioning queue
\* and the Telegram -> Signal queue as they are; and a Signal message with neither
\* text nor attachments leaves the Signal -> Telegram queue as it is too.
C38_SignalSideNeverProvisions ==
    [][/\ (last' # last /\ last'.op = "signal") =>
              /\ UNCHANGED ProvisioningState
              /\ ~last'.flag => telegram_send_queue' = telegram_send_queue
              /\ Len(telegram_send_queue') <= Len(telegram_send_queue) + 1
       /\ telegram_send_queue' # telegram_send_queue => UNCHANGED ProvisioningState
      ]_vars

\* C38 witness: a Signal message with content has just been enqueued for a
\* conversation provisioned in this behaviour, whose replayed item still waits on
\* the Telegram -> Signal queue.
C38_Witness ==
    /\ last.op = "signal"
    /\ last.flag
    /\ telegram_send_queue # <<>>
    /\ to_send_queue # <<>>

====
